---- MODULE Spec2Model ----
(***************************************************************************)
(* Dataflow graph scheduler (Graph, Node, Endpoint, Edge, PairingHeap).    *)
(*                                                                         *)
(* The model follows the JavaScript run-to-completion semantics: a         *)
(* synchronous stretch of code is one atomic action; every `await` ends    *)
(* the action.  Continuations of promises are microtasks, run in the order *)
(* they were queued; a timer callback (a run that sleeps) is a macrotask   *)
(* and runs only when the microtask queue is empty.  Calls of the graph's  *)
(* API by the user may come between any two tasks.                         *)
(*                                                                         *)
(* Node objects are identified with their ids.  Node 1 is a source (no     *)
(* input endpoint), every other node has the input endpoints 1..MaxPorts;  *)
(* each node has one output endpoint.  Edges go from a lower to a higher   *)
(* id, which keeps every graph acyclic.  A node's run emits the node's own *)
(* id as its value on its output, or throws, or sleeps on a timer and then *)
(* emits.                                                                  *)
(*                                                                         *)
(* Scope of Spec: all endpoints are in Push mode, the scheduling policy is *)
(* the DefaultSchedulingStrategy, an edge is connected at most once, a run *)
(* emits one value, the graph is built (addNode, connect) before the one   *)
(* call of execute, and at most MaxMutations calls of removeEdge,          *)
(* removeNode, cancel and clear happen, at any time.  SpecRun is the same  *)
(* without these calls.  SpecBuild adds the calls of addNode and connect   *)
(* that fail, SpecClear a final clear, SpecRearm a caller that sets a node *)
(* that has run back to Pending, and SpecHeap is the PairingHeap alone,    *)
(* holding numbers; SpecHeapStale adds calls of delete with handles of     *)
(* elements that are gone.  SpecPipe is one edge between two endpoints of  *)
(* any modes, with the calls of pushData, pullData and waitForData;        *)
(* SpecFifo is a producer whose run emits up to MaxEmit values to one      *)
(* consumer; SpecPriority is the priority demo (sources of distinct        *)
(* priorities and a sink); SpecTemporal is the graph under the             *)
(* TemporalSchedulingStrategy, where a removed id may be added again as a  *)
(* new node object.  SpecDynamic has either value of                       *)
(* enableDynamicScheduling and node objects whose endpoints were wired     *)
(* before addNode; SpecIndex builds and takes apart a graph in which a pair*)
(* of ports may be connected up to MaxCopies times; SpecAgain calls execute*)
(* up to MaxExecutes times, with nodes added and removed in between.       *)
(***************************************************************************)
EXTENDS Integers, Sequences, FiniteSets, TLC

\* ---------------------------------------------------------------- bounds
NumNodes == 3
MaxConcurrency == 2
MaxPriority == 1
MaxPorts == 1
MaxMutations == 1
MaxHeap == 4
MaxValue == 4
MaxEmit == 3
MaxCalls == 3
MaxCopies == 2
MaxExecutes == 2

Nil == 0
Undefined == 0

\* The microtask that continues execute() (or settles its Promise.race); the
\* microtask that continues the invocation of node n is n.
ExecTask == NumNodes + 1

Nodes == 1 .. NumNodes
Priorities == 0 .. MaxPriority
Behaviours == {"emit", "throw", "sleep"}

Ports == 1 .. MaxPorts

\* A heap of numbers: its PairingNodes and the values inserted.
HeapIds == 1 .. MaxHeap
Values == 1 .. MaxValue

\* Number of input endpoints of node n (node 1 is a source).
NIn(n) == IF n = 1 THEN 0 ELSE MaxPorts
InPorts(n) == 1 .. NIn(n)

\* NodeConfig defaults: cost.
DefaultCost == 1
Cost(n) == DefaultCost

\* The output endpoints of node n: every node has the one output endpoint 1.
OutPorts(n) == {1}

\* The endpoint ids a caller may pass to connect: one more than exist.
PortIds == 1 .. MaxPorts + 1

\* An Edge object: source node's output -> port p of the target node.
Edge(s, t, p) == [s |-> s, t |-> t, p |-> p]
AllEdges == {Edge(s, t, p) : s \in Nodes, t \in Nodes, p \in Ports}

VARIABLES
  maxConcurrency,   \* Graph.maxConcurrency
  priority,         \* Node.priority, per node
  nodes,            \* Graph.nodes: ids in the registry
  edges,            \* Graph.edges: registered edges, in insertion order
  outE,             \* OutputEndpoint.edges, per node: sequence of edges
  inE,              \* InputEndpoint.edges, per node and port
  buf,              \* InputEndpoint.dataQueue, per node and port
  obuf,             \* OutputEndpoint.dataQueue, per node
  state,            \* Node.state
  abort,            \* Node.abortController: "null", "live", "aborted"
  signal,           \* context.signal of executeNode(n): "none", "live",
                    \* "aborted"
  root,             \* PairingHeap.#root of the ready queue
  first_child,      \* PairingNode.first_child   (heap node of id n)
  next_sibling,     \* PairingNode.next_sibling
  prev_link,        \* PairingNode.prev_link
  hsize,            \* PairingHeap.#size
  handles,          \* Graph.nodeHeapNodes: ids that have a handle
  running,          \* Graph.runningNodes
  completed,        \* Graph.completedNodes
  inv,              \* position of executeNode(n): none, gather, timer, run,
                    \* post, fulfilled, rejected
  gi,               \* input port whose pullData executeNode(n) awaits
  behav,            \* what the node's run does: emit, throw, sleep
  got,              \* context.inputs of the node's invocation
  execPc,           \* position of execute(): idle, race, resume, all, hang,
                    \* done, rejected
  promises,         \* executionPromises of the current execute()
  winner,           \* the promise that settles the pending race/all, or Nil
  execErr,          \* the error execute() rejected with (the failing node)
  microtasks,       \* the microtask queue of the event loop
  mutations,        \* number of removeEdge/removeNode/cancel/clear calls
  unfinishedUp,     \* history: upstream nodes not Completed when n's run began
  keyChanged,       \* history: in-degree of n changed while n was queued
  removedQueued,    \* history: nodes removed while they were in the queue
  apiErr,           \* the error the last call of addNode/connect/decrease
                    \* threw
  cmp,              \* PairingHeap.#comparator: "strategy" (the graph's
                    \* ready queue) or "numbers" ((a, b) => a - b)
  value,            \* PairingNode.value (the node's id in the ready queue)
  out,              \* what the last call on the heap of numbers returned
                    \* (Undefined when it returned no value)
  lastOp,           \* history: the last call on the heap of numbers
  inMode,           \* InputEndpoint.dataFlowMode, per node and port
  outMode,          \* OutputEndpoint.dataFlowMode, per node
  dataPromises,     \* InputEndpoint.dataPromises, per node and port: the
                    \* calls of waitForData whose promise is pending
  calls,            \* history: the calls of pullData and waitForData made
                    \* on an input endpoint by its user, with their results
  emitted,          \* history: the values pushed by the user of an endpoint
  emits,            \* the values the run of a node passes to setOutput, in
                    \* order (the node's program), per node
  sent,             \* how many of them the node's current run has passed
  reads,            \* history: what getInput returned on input port 1 in
                    \* the successive runs of a node
  strategy,         \* Graph.schedulingStrategy: "default" or "temporal"
  enableDynamicScheduling,  \* GraphConfig.enableDynamicScheduling
  insertionOrder,   \* TemporalSchedulingStrategy.insertionOrder: a function
                    \* from the ids registered to their numbers
  counter,          \* TemporalSchedulingStrategy.counter
  executes,         \* history: the number of calls of execute()
  membership,       \* history, kept under the temporal policy: the ids in
                    \* the registry, in the order they were added
  lastPoll          \* history: the last extraction of the dispatch loop

vars == << maxConcurrency, priority, nodes, edges, outE, inE, buf, obuf, state,
           abort, root, first_child, next_sibling, prev_link, hsize, handles,
           running, completed, inv, gi, behav, got, execPc, promises, winner,
           execErr, microtasks, mutations, unfinishedUp, keyChanged, lastPoll,
           signal, removedQueued, apiErr, cmp, value, out,
           lastOp, inMode, outMode, dataPromises, calls, emitted, emits,
           sent, reads, strategy, insertionOrder, counter, membership,
           enableDynamicScheduling, executes >>

\* DataFlowMode of the endpoints.
InMode(n, p) == inMode[n][p]
OutMode(n) == outMode[n]

\* The whole state as one record, so that operations compose as functions.
G == [ nodes |-> nodes, edges |-> edges, outE |-> outE, inE |-> inE,
       buf |-> buf, obuf |-> obuf, state |-> state, abort |-> abort,
       root |-> root, first_child |-> first_child,
       next_sibling |-> next_sibling, prev_link |-> prev_link,
       hsize |-> hsize, handles |-> handles, running |-> running,
       completed |-> completed, inv |-> inv, gi |-> gi, behav |-> behav,
       got |-> got, execPc |-> execPc, promises |-> promises,
       winner |-> winner, execErr |-> execErr, microtasks |-> microtasks,
       mutations |-> mutations, unfinishedUp |-> unfinishedUp,
       keyChanged |-> keyChanged, lastPoll |-> lastPoll, signal |-> signal,
       removedQueued |-> removedQueued, apiErr |-> apiErr, cmp |-> cmp,
       value |-> value, out |-> out, lastOp |-> lastOp,
       dataPromises |-> dataPromises, calls |-> calls, emitted |-> emitted,
       sent |-> sent, reads |-> reads, insertionOrder |-> insertionOrder,
       counter |-> counter, membership |-> membership,
       executes |-> executes ]

Install(g) ==
  /\ apiErr' = g.apiErr
  /\ nodes' = g.nodes /\ edges' = g.edges /\ outE' = g.outE /\ inE' = g.inE
  /\ buf' = g.buf /\ obuf' = g.obuf /\ state' = g.state /\ abort' = g.abort
  /\ root' = g.root /\ first_child' = g.first_child
  /\ next_sibling' = g.next_sibling /\ prev_link' = g.prev_link
  /\ hsize' = g.hsize /\ handles' = g.handles /\ running' = g.running
  /\ completed' = g.completed /\ inv' = g.inv /\ gi' = g.gi
  /\ behav' = g.behav /\ got' = g.got /\ execPc' = g.execPc
  /\ promises' = g.promises /\ winner' = g.winner /\ execErr' = g.execErr
  /\ microtasks' = g.microtasks /\ mutations' = g.mutations
  /\ unfinishedUp' = g.unfinishedUp /\ keyChanged' = g.keyChanged
  /\ lastPoll' = g.lastPoll
  /\ signal' = g.signal /\ removedQueued' = g.removedQueued
  /\ cmp' = g.cmp /\ value' = g.value /\ out' = g.out
  /\ lastOp' = g.lastOp
  /\ dataPromises' = g.dataPromises /\ calls' = g.calls
  /\ emitted' = g.emitted /\ sent' = g.sent /\ reads' = g.reads
  /\ insertionOrder' = g.insertionOrder /\ counter' = g.counter
  /\ membership' = g.membership
  /\ executes' = g.executes
  /\ UNCHANGED << maxConcurrency, priority, inMode, outMode, emits,
                  strategy, enableDynamicScheduling >>

\* ------------------------------------------------------------ sequences
RECURSIVE SeqRemove(_, _)
\* Array.splice(indexOf(x), 1): remove the first occurrence of x.
SeqRemove(s, x) ==
  IF s = << >> THEN << >>
  ELSE IF Head(s) = x THEN Tail(s)
  ELSE << Head(s) >> \o SeqRemove(Tail(s), x)

RECURSIVE SeqRemoveLast(_, _)
\* Remove the last occurrence of x.  Two edges with the same id are two
\* objects that the model writes alike; the one the registry holds is the
\* one connected last, which comes last in the endpoints' lists.
SeqRemoveLast(s, x) ==
  IF s = << >> THEN << >>
  ELSE IF s[Len(s)] = x THEN SubSeq(s, 1, Len(s) - 1)
  ELSE SeqRemoveLast(SubSeq(s, 1, Len(s) - 1), x) \o << s[Len(s)] >>

Range(s) == {s[i] : i \in 1 .. Len(s)}

\* A promise that is (or becomes) settled queues the continuation awaiting it.
queue(g, task) == [g EXCEPT !.microtasks = Append(@, task)]

\* The event loop takes the next microtask.
dequeue(g) == [g EXCEPT !.microtasks = Tail(@)]

\* Microtask `task` is the one the event loop runs next.
IsNext(task) == microtasks # << >> /\ Head(microtasks) = task

\* ------------------------------------------------------------------ Node
\* Node.getInDegree
RECURSIVE SumLen(_, _, _)
SumLen(g, n, p) ==
  IF p = 0 THEN 0 ELSE Len(g.inE[n][p]) + SumLen(g, n, p - 1)

getInDegree(g, n) == SumLen(g, n, NIn(n))

\* Node.getOutDegree (one output endpoint)
getOutDegree(g, n) == Len(g.outE[n])

\* InputEndpoint.hasData / OutputEndpoint.hasData
InHasData(g, n, p) == Len(g.buf[n][p]) > 0
OutHasData(g, n) == Len(g.obuf[n]) > 0

\* Node.isReady, the test of the input endpoints: each has no edge or has
\* data (Push: its own buffer; Pull: some upstream output).
inputsReady(g, n) ==
  \A p \in InPorts(n) :
    \/ Len(g.inE[n][p]) = 0
    \/ IF InMode(n, p) = "push"
       THEN InHasData(g, n, p)
       ELSE \E i \in 1 .. Len(g.inE[n][p]) : OutHasData(g, g.inE[n][p][i].s)

\* Node.isReady
isReady(g, n) ==
  /\ g.state[n] = "pending"
  /\ inputsReady(g, n)

\* Node.cancel
cancel(g, n) ==
  [g EXCEPT !.abort[n] = IF @ = "live" THEN "aborted" ELSE @,
            !.state[n] = "cancelled"]

\* ---------------------------------------------------- scheduling policy
\* DefaultSchedulingStrategy.compare
compare(g, a, b) ==
  IF priority[a] # priority[b] THEN priority[a] - priority[b]
  ELSE IF getInDegree(g, a) # getInDegree(g, b)
       THEN getInDegree(g, a) - getInDegree(g, b)
       ELSE Cost(a) - Cost(b)

\* What `insertionOrder.get(id) ?? Infinity` yields for an id that is not
\* registered: more than any counter value.
Infinity == NumNodes + MaxMutations + 1

\* TemporalSchedulingStrategy.registerNode
registerNode(g, n) ==
  IF n \in DOMAIN g.insertionOrder THEN g
  ELSE [g EXCEPT !.insertionOrder =
                    [x \in DOMAIN @ \cup {n} |->
                       IF x = n THEN g.counter ELSE @[x]],
                 !.counter = @ + 1]

\* TemporalSchedulingStrategy.compare.  (The graph registers a node before
\* it enqueues it, so two unregistered nodes are never compared.)
temporalCompare(g, a, b) ==
  LET orderA == IF a \in DOMAIN g.insertionOrder THEN g.insertionOrder[a]
                ELSE Infinity
      orderB == IF b \in DOMAIN g.insertionOrder THEN g.insertionOrder[b]
                ELSE Infinity
  IN orderA - orderB

\* (a, b) => this.schedulingStrategy.compare(a, b)
strategyCompare(g, a, b) ==
  IF strategy = "temporal" THEN temporalCompare(g, a, b) ELSE compare(g, a, b)

\* ------------------------------------------------------------ PairingHeap
\* PairingHeap.#comparator, applied to two values: the ready queue's is the
\* scheduling policy's compare, a heap of numbers has (a, b) => a - b.
comparator(g, x, y) ==
  IF g.cmp = "strategy" THEN strategyCompare(g, x, y) ELSE x - y

\* The heap node (PairingNode) of graph node n is identified with n: a node
\* is inserted at most once, on its Pending -> Ready transition.

\* Faulty #meld: the comparison is inverted (the larger key wins).
meldInverted(g, a, b) ==
  IF comparator(g, g.value[a], g.value[b]) > 0
  THEN LET c == g.first_child[a]
           pl == IF c # Nil THEN [g.prev_link EXCEPT ![c] = b] ELSE g.prev_link
       IN [g |-> [g EXCEPT !.next_sibling[b] = c,
                           !.prev_link = [pl EXCEPT ![b] = a],
                           !.first_child[a] = b],
           r |-> a]
  ELSE LET c == g.first_child[b]
           pl == IF c # Nil THEN [g.prev_link EXCEPT ![c] = a] ELSE g.prev_link
       IN [g |-> [g EXCEPT !.next_sibling[a] = c,
                           !.prev_link = [pl EXCEPT ![a] = b],
                           !.first_child[b] = a],
           r |-> b]

\* PairingHeap.#meld: returns the changed state and the winning root.
meld(g, a, b) ==
  IF comparator(g, g.value[a], g.value[b]) <= 0
  THEN LET c == g.first_child[a]
           pl == IF c # Nil THEN [g.prev_link EXCEPT ![c] = b] ELSE g.prev_link
       IN [g |-> [g EXCEPT !.next_sibling[b] = c,
                           !.prev_link = [pl EXCEPT ![b] = a],
                           !.first_child[a] = b],
           r |-> a]
  ELSE LET c == g.first_child[b]
           pl == IF c # Nil THEN [g.prev_link EXCEPT ![c] = a] ELSE g.prev_link
       IN [g |-> [g EXCEPT !.next_sibling[a] = c,
                           !.prev_link = [pl EXCEPT ![a] = b],
                           !.first_child[b] = a],
           r |-> b]

RECURSIVE SiblingList(_, _)
\* The nodes of a sibling list, following next_sibling from head.
SiblingList(g, head) ==
  IF head = Nil THEN << >>
  ELSE << head >> \o SiblingList(g, g.next_sibling[head])

RECURSIVE FirstPass(_, _, _)
\* #merge_pairs, first pass: meld adjacent siblings from left to right.
FirstPass(g, sibs, i) ==
  IF i > Len(sibs) THEN [g |-> g, pairs |-> << >>]
  ELSE IF i = Len(sibs) THEN [g |-> g, pairs |-> << sibs[i] >>]
  ELSE LET m == meld(g, sibs[i], sibs[i + 1])
           rest == FirstPass(m.g, sibs, i + 2)
       IN [g |-> rest.g, pairs |-> << m.r >> \o rest.pairs]

RECURSIVE SecondPass(_, _, _, _)
\* #merge_pairs, second pass: meld the pairs from right to left.
SecondPass(g, pairs, i, result) ==
  IF i < 1 THEN [g |-> g, r |-> result]
  ELSE LET m == meld(g, pairs[i], result)
       IN SecondPass(m.g, pairs, i - 1, m.r)

\* PairingHeap.#merge_pairs
merge_pairs(g, head) ==
  IF head = Nil THEN [g |-> g, r |-> Nil]
  ELSE IF g.next_sibling[head] = Nil THEN [g |-> g, r |-> head]
  ELSE LET sibs == SiblingList(g, head)
           \* "Clear links" of every sibling visited
           g1 == [g EXCEPT
                    !.prev_link = [x \in DOMAIN @ |->
                                     IF x \in Range(sibs) THEN Nil ELSE @[x]],
                    !.next_sibling = [x \in DOMAIN @ |->
                                     IF x \in Range(sibs) THEN Nil ELSE @[x]]]
           fp == FirstPass(g1, sibs, 1)
       IN SecondPass(fp.g, fp.pairs, Len(fp.pairs) - 1,
                     fp.pairs[Len(fp.pairs)])

\* PairingHeap.#cut_node
cut_node(g, n) ==
  LET pl == g.prev_link[n]
      ns == g.next_sibling[n]
      g1 == IF pl = Nil THEN g
            ELSE IF g.first_child[pl] = n
                 THEN [g EXCEPT !.first_child[pl] = ns]
                 ELSE [g EXCEPT !.next_sibling[pl] = ns]
      g2 == IF ns # Nil THEN [g1 EXCEPT !.prev_link[ns] = pl] ELSE g1
  IN [g2 EXCEPT !.prev_link[n] = Nil, !.next_sibling[n] = Nil]

\* PairingHeap.poll: returns the changed state and the value (Nil for null).
\* The polled PairingNode is dropped by the caller; its links are reset.
poll(g) ==
  IF g.root = Nil THEN [g |-> g, v |-> Nil]
  ELSE LET r == g.root
           c == g.first_child[r]
           g1 == [g EXCEPT !.first_child[r] = Nil,
                           !.prev_link = IF c # Nil
                                         THEN [@ EXCEPT ![c] = Nil, ![r] = Nil]
                                         ELSE [@ EXCEPT ![r] = Nil]]
           m == merge_pairs(g1, c)
       IN [g |-> [m.g EXCEPT !.root = m.r, !.hsize = @ - 1], v |-> r]

\* PairingHeap.insert (of a fresh PairingNode for n)
insert(g, n) ==
  LET g0 == [g EXCEPT !.first_child[n] = Nil, !.next_sibling[n] = Nil,
                      !.prev_link[n] = Nil]
      m == IF g0.root # Nil THEN meld(g0, g0.root, n) ELSE [g |-> g0, r |-> n]
  IN [m.g EXCEPT !.root = m.r, !.hsize = @ + 1]

\* Faulty delete: the node's children are dropped with it.
deleteDropsChildren(g, n) ==
  IF g.root = Nil \/ n = Nil THEN g
  ELSE IF n = g.root THEN poll(g).g
  ELSE [cut_node(g, n) EXCEPT !.first_child[n] = Nil, !.hsize = @ - 1]

\* PairingHeap.delete
delete(g, n) ==
  IF g.root = Nil \/ n = Nil THEN g
  ELSE IF n = g.root THEN poll(g).g
  ELSE LET g1 == cut_node(g, n)
           m == merge_pairs(g1, g1.first_child[n])
           g2 == [m.g EXCEPT !.first_child[n] = Nil]
           g3 == IF m.r # Nil
                 THEN LET mm == meld(g2, g2.root, m.r)
                      IN [mm.g EXCEPT !.root = mm.r]
                 ELSE g2
       IN [g3 EXCEPT !.hsize = @ - 1]

\* PairingHeap.peek: the root's value (Undefined for an empty heap).
peek(g) == IF g.root = Nil THEN Undefined ELSE g.value[g.root]

\* Faulty decrease: the node keeps its place in the tree.
decreaseInPlace(g, n, v) ==
  IF comparator(g, v, g.value[n]) > 0
  THEN [g EXCEPT !.apiErr = "not a higher priority"]
  ELSE [g EXCEPT !.value[n] = v, !.apiErr = "none"]

\* Faulty decrease: the new value is not compared with the current one.
decreaseNoThrow(g, n, v) ==
  LET g1 == [g EXCEPT !.value[n] = v, !.apiErr = "none"]
  IN IF n = g1.root THEN g1
     ELSE LET m == meld(cut_node(g1, n), g1.root, n)
          IN [m.g EXCEPT !.root = m.r]

\* PairingHeap.decrease
decrease(g, n, v) ==
  IF comparator(g, v, g.value[n]) > 0
  THEN [g EXCEPT !.apiErr = "not a higher priority"]
  ELSE LET g1 == [g EXCEPT !.value[n] = v, !.apiErr = "none"]
       IN IF n = g1.root THEN g1
          ELSE LET m == meld(cut_node(g1, n), g1.root, n)
               IN [m.g EXCEPT !.root = m.r]

\* PairingHeap.clear; the PairingNodes become garbage, their links are reset.
heapClear(g) ==
  [g EXCEPT !.root = Nil, !.hsize = 0,
            !.first_child = [x \in DOMAIN @ |-> Nil],
            !.next_sibling = [x \in DOMAIN @ |-> Nil],
            !.prev_link = [x \in DOMAIN @ |-> Nil]]

RECURSIVE Subtree(_, _)
\* The nodes of the tree rooted at n together with n's right siblings:
\* what the heap's iterator visits from n.
Subtree(g, n) ==
  IF n = Nil THEN {}
  ELSE {n} \cup Subtree(g, g.first_child[n]) \cup Subtree(g, g.next_sibling[n])

\* The elements in the heap (PairingHeap[Symbol.iterator]).
HeapMembers(g) == Subtree(g, g.root)

\* ---------------------------------------------------------------- Graph
\* Faulty checkNodeReady: the state of the node is not tested.
checkNodeReadyAnyState(g, n) ==
  IF inputsReady(g, n) /\ n \notin g.handles /\ n \notin g.running
  THEN LET g1 == insert([g EXCEPT !.state[n] = "ready"], n)
       IN [g1 EXCEPT !.handles = @ \cup {n}]
  ELSE g

\* Graph.checkNodeReady
checkNodeReady(g, n) ==
  IF g.state[n] = "pending" /\ isReady(g, n)
  THEN LET g1 == insert([g EXCEPT !.state[n] = "ready"], n)
       IN [g1 EXCEPT !.handles = @ \cup {n}]
  ELSE g

\* Faulty addNode: the node is registered but never enqueued.
addNodeNoEnqueue(g, n) == [g EXCEPT !.nodes = @ \cup {n}]

\* Graph.addNode (of a node whose id is not registered)
addNode(g, n) ==
  LET g0 == [g EXCEPT !.nodes = @ \cup {n}, !.removedQueued = @ \ {n}]
      g1 == IF strategy = "temporal"
            THEN [registerNode(g0, n) EXCEPT !.membership = Append(@, n)]
            ELSE g0
  IN IF isReady(g1, n)
     THEN LET g2 == insert([g1 EXCEPT !.state[n] = "ready"], n)
          IN [g2 EXCEPT !.handles = @ \cup {n}]
     ELSE g1

\* Faulty addNode: the id is not looked up in the registry.
addNodeCallNoCheck(g, n) == [addNode(g, n) EXCEPT !.apiErr = "none"]

\* Graph.addNode as called with any node: the duplicate-id error, then the
\* registration.
addNodeCall(g, n) ==
  IF n \in g.nodes THEN [g EXCEPT !.apiErr = "already exists"]
  ELSE [addNode(g, n) EXCEPT !.apiErr = "none"]

\* Faulty connect: the target is taken out of the ready queue and set back
\* to Pending.
connectDequeues(g, s, t, p) ==
  LET e == Edge(s, t, p)
      g1 == [g EXCEPT !.outE[s] = Append(@, e),
                      !.inE[t][p] = Append(@, e),
                      !.edges = Append(@, e)]
  IN IF t \in g1.handles
     THEN [delete(g1, t) EXCEPT !.handles = @ \ {t}, !.state[t] = "pending"]
     ELSE g1

\* Graph.connect (both nodes registered, both endpoints exist): the Edge is
\* a new object, which no endpoint list includes yet; the registry is a Map
\* keyed by the edge id, where a second edge of the same id takes the place
\* of the first.
connect(g, s, t, p) ==
  LET e == Edge(s, t, p)
  IN [g EXCEPT !.outE[s] = Append(@, e),
               !.inE[t][p] = Append(@, e),
               !.edges = IF e \in Range(@) THEN @ ELSE Append(@, e),
               !.keyChanged[t] = @ \/ t \in HeapMembers(g)]

\* OutputEndpoint.canConnect(other): other is an input endpoint.  The
\* endpoint connect passes was looked up among the target's input endpoints.
canConnect(s, sp, t, tp) == tp \in InPorts(t)

\* Faulty connect: the two nodes are not looked up in the registry.
connectCallNoNodeCheck(g, s, sp, t, tp) ==
  IF sp \notin OutPorts(s) \/ tp \notin InPorts(t)
  THEN [g EXCEPT !.apiErr = "endpoint not found"]
  ELSE IF ~canConnect(s, sp, t, tp)
  THEN [g EXCEPT !.apiErr = "cannot connect"]
  ELSE [connect(g, s, t, tp) EXCEPT !.apiErr = "none"]

\* Graph.connect as called with any node ids and endpoint ids: the lookups
\* and their errors, then the registration of the edge.
connectCall(g, s, sp, t, tp) ==
  IF s \notin g.nodes \/ t \notin g.nodes
  THEN [g EXCEPT !.apiErr = "node not found"]
  ELSE IF sp \notin OutPorts(s) \/ tp \notin InPorts(t)
  THEN [g EXCEPT !.apiErr = "endpoint not found"]
  ELSE IF ~canConnect(s, sp, t, tp)
  THEN [g EXCEPT !.apiErr = "cannot connect"]
  ELSE [connect(g, s, t, tp) EXCEPT !.apiErr = "none"]

\* Faulty removeEdge: the edge stays in the target endpoint's list.
removeEdgeKeepsTarget(g, e) ==
  IF e \notin Range(g.edges) THEN g
  ELSE LET g1 == [g EXCEPT !.outE[e.s] = SeqRemove(@, e),
                           !.edges = SeqRemove(@, e)]
       IN checkNodeReady(g1, e.t)

\* Faulty removeEdge: the target's readiness is not re-evaluated.
removeEdgeNoCheck(g, e) ==
  IF e \notin Range(g.edges) THEN g
  ELSE [g EXCEPT !.outE[e.s] = SeqRemove(@, e),
                 !.inE[e.t][e.p] = SeqRemove(@, e),
                 !.edges = SeqRemove(@, e),
                 !.keyChanged[e.t] = @ \/ e.t \in HeapMembers(g)]

\* Graph.removeEdge
removeEdge(g, e) ==
  IF e \notin Range(g.edges) THEN g
  ELSE LET g1 == [g EXCEPT !.outE[e.s] = SeqRemoveLast(@, e),
                           !.inE[e.t][e.p] = SeqRemoveLast(@, e),
                           !.edges = SeqRemove(@, e),
                           !.keyChanged[e.t] = @ \/ e.t \in HeapMembers(g)]
       IN checkNodeReady(g1, e.t)

RECURSIVE removeEdges(_, _)
\* edgesToRemove.forEach(edgeId => this.removeEdge(edgeId))
removeEdges(g, es) ==
  IF es = << >> THEN g ELSE removeEdges(removeEdge(g, Head(es)), Tail(es))

\* Faulty removeNode: the node's entry stays in the ready queue.
removeNodeNoDelete(g, n) ==
  IF n \notin g.nodes THEN g
  ELSE LET g1 == IF g.state[n] = "running"
                 THEN [cancel(g, n) EXCEPT !.running = @ \ {n}]
                 ELSE g
           g2 == IF n \in g1.handles
                 THEN [g1 EXCEPT !.removedQueued = @ \cup {n}]
                 ELSE g1
           edgesToRemove == SelectSeq(g2.edges, LAMBDA e : e.s = n \/ e.t = n)
           g3 == removeEdges(g2, edgesToRemove)
       IN [g3 EXCEPT !.nodes = @ \ {n}, !.completed = @ \ {n},
                     !.membership = SeqRemove(@, n)]

\* Graph.removeNode
removeNode(g, n) ==
  IF n \notin g.nodes THEN g
  ELSE LET g1 == IF g.state[n] = "running"
                 THEN [cancel(g, n) EXCEPT !.running = @ \ {n}]
                 ELSE g
           g2 == IF n \in g1.handles
                 THEN [delete(g1, n) EXCEPT !.handles = @ \ {n},
                                            !.keyChanged[n] = FALSE,
                                            !.removedQueued = @ \cup {n}]
                 ELSE g1
           edgesToRemove == SelectSeq(g2.edges, LAMBDA e : e.s = n \/ e.t = n)
           g3 == removeEdges(g2, edgesToRemove)
       IN [g3 EXCEPT !.nodes = @ \ {n}, !.completed = @ \ {n},
                     !.membership = SeqRemove(@, n)]

\* Graph.getStats
getStats(g) ==
  [totalNodes |-> Cardinality(g.nodes),
   totalEdges |-> Len(g.edges),
   states |-> [st \in {"pending", "ready", "running", "completed", "failed",
                       "cancelled"} |->
                 Cardinality({n \in g.nodes : g.state[n] = st})],
   runningNodes |-> Cardinality(g.running),
   readyNodes |-> g.hsize]

RECURSIVE cancelAll(_, _)
\* for (const nodeId of this.runningNodes) nodes.get(nodeId)?.cancel()
cancelAll(g, ns) ==
  IF ns = {} THEN g
  ELSE LET n == CHOOSE x \in ns : TRUE
       IN cancelAll(IF n \in g.nodes THEN cancel(g, n) ELSE g, ns \ {n})

\* Graph.clear
clear(g) ==
  LET g1 == heapClear(cancelAll(g, g.running))
  IN [g1 EXCEPT !.nodes = {}, !.edges = << >>, !.handles = {},
                !.running = {}, !.completed = {},
                !.keyChanged = [x \in Nodes |-> FALSE],
                !.removedQueued = {},
                !.membership = << >>]

\* ------------------------------------------------------------- Endpoints
\* The promise of the call of waitForData numbered c resolves with v.
resolver(g, c, v) == [g EXCEPT !.calls[c] = [@ EXCEPT !.done = TRUE, !.res = v]]

\* Faulty InputEndpoint.pushData: the value is put at the front of the
\* dataQueue.
inPushDataFront(g, t, p, v) ==
  IF InMode(t, p) # "push" THEN [g EXCEPT !.apiErr = "not in PUSH mode"]
  ELSE IF g.dataPromises[t][p] # << >>
  THEN resolver([g EXCEPT !.dataPromises[t][p] = Tail(@)],
                Head(g.dataPromises[t][p]), v)
  ELSE [g EXCEPT !.buf[t][p] = << v >> \o @]

\* Faulty InputEndpoint.pushData: a value that resolves an awaiter is put
\* into the dataQueue as well.
inPushDataAlsoBuffers(g, t, p, v) ==
  IF InMode(t, p) # "push" THEN [g EXCEPT !.apiErr = "not in PUSH mode"]
  ELSE IF g.dataPromises[t][p] # << >>
  THEN resolver([g EXCEPT !.dataPromises[t][p] = Tail(@),
                          !.buf[t][p] = Append(@, v)],
                Head(g.dataPromises[t][p]), v)
  ELSE [g EXCEPT !.buf[t][p] = Append(@, v)]

\* InputEndpoint.pushData on port p of node t: the mode error; else the
\* oldest awaiter is resolved, or the value is appended to the dataQueue.
\* (The scheduler registers no awaiter.)
inPushData(g, t, p, v) ==
  IF InMode(t, p) # "push" THEN [g EXCEPT !.apiErr = "not in PUSH mode"]
  ELSE IF g.dataPromises[t][p] # << >>
  THEN resolver([g EXCEPT !.dataPromises[t][p] = Tail(@)],
                Head(g.dataPromises[t][p]), v)
  ELSE [g EXCEPT !.buf[t][p] = Append(@, v)]

RECURSIVE pushEdges(_, _, _)
\* this.edges.map(edge => edge.target.pushData(data))
pushEdges(g, es, v) ==
  IF es = << >> THEN g
  ELSE pushEdges(inPushData(g, Head(es).t, Head(es).p, v), Tail(es), v)

\* OutputEndpoint.pushData of node n's output
outPushData(g, n, v) ==
  IF OutMode(n) = "push" THEN pushEdges(g, g.outE[n], v)
  ELSE [g EXCEPT !.obuf[n] = Append(@, v)]

\* Faulty OutputEndpoint.pullData: the mode is not tested.
outPullDataAnyMode(g, n) ==
  LET q == g.obuf[n]
  IN [g |-> [g EXCEPT !.obuf[n] = IF q = << >> THEN q ELSE Tail(q)],
      v |-> IF q = << >> THEN Undefined ELSE Head(q)]

\* OutputEndpoint.pullData of node n's output: the changed state and the
\* value returned (Undefined also when it throws).
outPullData(g, n) ==
  IF OutMode(n) # "pull"
  THEN [g |-> [g EXCEPT !.apiErr = "not in PULL mode"], v |-> Undefined]
  ELSE LET q == g.obuf[n]
       IN [g |-> [g EXCEPT !.obuf[n] = IF q = << >> THEN q ELSE Tail(q)],
           v |-> IF q = << >> THEN Undefined ELSE Head(q)]

RECURSIVE pullEdges(_, _)
\* for (const edge of this.edges) { data = await edge.source.pullData() ... }
\* The loop ends with the first value that is defined, or when a source
\* throws.
pullEdges(g, es) ==
  IF es = << >> THEN [g |-> g, v |-> Undefined]
  ELSE LET r == outPullData(g, Head(es).s)
       IN IF r.v # Undefined \/ r.g.apiErr # "none" THEN r
          ELSE pullEdges(r.g, Tail(es))

\* InputEndpoint.pullData on port p of node n, as called by the endpoint's
\* user: the changed state and the value returned.
inPullData(g, n, p) ==
  IF InMode(n, p) = "push"
  THEN LET q == g.buf[n][p]
       IN [g |-> [g EXCEPT !.buf[n][p] = IF q = << >> THEN q ELSE Tail(q)],
           v |-> IF q = << >> THEN Undefined ELSE Head(q)]
  ELSE pullEdges(g, g.inE[n][p])

\* InputEndpoint.waitForData on port p of node n, the call numbered c: a
\* buffered value resolves the call at once, else its resolver is queued.
waitForData(g, n, p, c) ==
  LET q == g.buf[n][p]
  IN IF Len(q) > 0
     THEN resolver([g EXCEPT !.buf[n][p] = Tail(q)], c, Head(q))
     ELSE [g EXCEPT !.dataPromises[n][p] = Append(@, c)]

\* InputEndpoint.pullData in Push mode (dataQueue.shift()), as called by
\* executeNode, which stores the result under the port in its inputs.
pullPort(g, n, p) ==
  LET q == g.buf[n][p]
  IN queue([g EXCEPT !.got[n][p] = IF q = << >> THEN Undefined ELSE Head(q),
                     !.buf[n][p] = IF q = << >> THEN q ELSE Tail(q),
                     !.gi[n] = p,
                     !.inv[n] = "gather"], n)

\* ------------------------------------------------------ node invocation
\* The nodes at the source end of n's incident input edges.
Upstream(g, n) == {e.s : e \in UNION {Range(g.inE[n][p]) : p \in InPorts(n)}}

\* The run of node n calls context.setOutput with the next of its values:
\* the call runs synchronously into OutputEndpoint.pushData, and the run goes
\* on in a microtask, after its await.
setOutput(g, n) ==
  queue([outPushData(g, n, emits[n][g.sent[n] + 1])
           EXCEPT !.sent[n] = @ + 1, !.inv[n] = "run"], n)

\* Node.execute up to the first await of run: behaviour b of the run.  The
\* run reads its input with getInput and then emits, throws, or sleeps.
runSync(g, n, b) ==
  LET g1 == [g EXCEPT !.abort[n] = "live",
                      !.state[n] = "running",
                      !.behav[n] = b,
                      !.sent[n] = 0,
                      !.reads[n] = Append(@, g.got[n][1]),
                      !.unfinishedUp[n] =
                         {u \in Upstream(g, n) : g.state[u] # "completed"}]
  IN IF b = "emit" THEN setOutput(g1, n)
     ELSE IF b = "throw" THEN queue([g1 EXCEPT !.inv[n] = "run"], n)
     ELSE [g1 EXCEPT !.inv[n] = "timer"]

startRun(g, n) == {runSync(g, n, b) : b \in Behaviours}

\* Graph.createNodeContext: a fresh AbortController, whose signal becomes
\* context.signal, and an empty inputs map.  Nothing keeps a reference to
\* the controller.
createNodeContext(g, n) ==
  [g EXCEPT !.signal[n] = "live", !.got[n] = [p \in Ports |-> Undefined]]

\* Graph.executeNode up to its first await.
executeNodeStart(g, n) ==
  LET g1 == createNodeContext(g, n)
  IN IF NIn(n) = 0 THEN startRun(g1, n) ELSE {pullPort(g1, n, 1)}

\* A promise of executeNode settles.  A pending Promise.race of execute()
\* that holds it is decided by the first settlement it sees; a pending
\* Promise.all by the first rejection, or by the last fulfilment.
settle(g, n, outcome) ==
  LET g1 == [g EXCEPT !.inv[n] = outcome]
      undecided == g.winner = Nil /\ n \in Range(g.promises)
  IN IF undecided /\ g.execPc = "race"
     THEN queue([g1 EXCEPT !.winner = n], ExecTask)
     ELSE IF undecided /\ g.execPc = "all" /\ outcome = "rejected"
     THEN queue([g1 EXCEPT !.winner = n], ExecTask)
     ELSE IF /\ undecided /\ g.execPc = "all"
             /\ \A m \in Range(g1.promises) : g1.inv[m] = "fulfilled"
     THEN queue(g1, ExecTask)
     ELSE g1

RECURSIVE checkTargets(_, _)
\* for (const edge of outputEp.getEdges()) checkNodeReady(edge.target.node)
checkTargets(g, es) ==
  IF es = << >> THEN g
  ELSE checkTargets(checkNodeReady(g, Head(es).t), Tail(es))

\* Faulty executeNode: without the `finally`, a throwing run leaves the id in
\* the running set.
executeNodeEndNoFinally(g, n) ==
  IF g.behav[n] = "throw"
  THEN settle(g, n, "rejected")
  ELSE LET g1 == [g EXCEPT !.completed = @ \cup {n}]
           g2 == checkTargets(g1, g1.outE[n])
       IN settle([g2 EXCEPT !.running = @ \ {n}], n, "fulfilled")

\* Graph.executeNode after `await node.execute(context)`.
executeNodeEnd(g, n) ==
  IF g.behav[n] = "throw"
  THEN settle([g EXCEPT !.running = @ \ {n}], n, "rejected")
  ELSE LET g1 == [g EXCEPT !.completed = @ \cup {n}]
           g2 == checkTargets(g1, g1.outE[n])
       IN settle([g2 EXCEPT !.running = @ \ {n}], n, "fulfilled")

\* --------------------------------------------------------- Graph.execute
\* Faulty guard of the inner loop: the concurrency limit is not tested.
CanDispatchUnbounded(g) == g.hsize > 0

\* Guard of the inner dispatch loop.
CanDispatch(g) == g.hsize > 0 /\ Cardinality(g.running) < maxConcurrency

\* x does not come after y in the sequence s (of different elements).
Before(s, x, y) ==
  \A i \in 1 .. Len(s) : \A j \in 1 .. Len(s) :
    (s[i] = x /\ s[j] = y) => i <= j

\* What the extraction of n from the queue looked like (history).
PollRecord(g, n) ==
  LET ms == HeapMembers(g)
  IN [n |-> n,
      size |-> Cardinality(ms),
      isMin |-> \A m \in ms : strategyCompare(g, n, m) <= 0,
      ties |-> \E a \in ms : \E b \in ms \ {a} : strategyCompare(g, a, b) = 0,
      stale |-> \E m \in ms : g.keyChanged[m],
      afterRemoval |-> g.removedQueued # {},
      oldest |-> \A m \in ms : Before(g.membership, n, m),
      fed |-> inputsReady(g, n)]

\* One pass of the inner loop's body: poll, bookkeeping, executeNode.
dispatch(g) ==
  LET pr == poll(g)
      n == pr.v
      g1 == [pr.g EXCEPT !.handles = @ \ {n},
                         !.running = @ \cup {n},
                         !.lastPoll = PollRecord(g, n),
                         !.keyChanged[n] = FALSE]
  IN {[s EXCEPT !.promises = Append(@, n)] : s \in executeNodeStart(g1, n)}

RECURSIVE innerLoop(_)
innerLoop(g) ==
  IF CanDispatch(g)
  THEN IF g.root = Nil THEN {g}
       ELSE UNION {innerLoop(s) : s \in dispatch(g)}
  ELSE {g}

\* The first promise of executionPromises whose state is in `want`.
FirstIn(g, want) ==
  LET idx == {i \in 1 .. Len(g.promises) : g.inv[g.promises[i]] \in want}
  IN IF idx = {} THEN Nil
     ELSE g.promises[CHOOSE i \in idx : \A j \in idx : i <= j]

\* await Promise.race(executionPromises): a promise that is already settled
\* decides the race at once (the first one, in array order).
awaitRace(g) ==
  LET w == FirstIn(g, {"fulfilled", "rejected"})
      g1 == [g EXCEPT !.execPc = "race", !.winner = w]
  IN IF w # Nil THEN queue(g1, ExecTask) ELSE g1

\* Faulty final await: execute() goes on without waiting for the promises.
awaitAllNoWait(g) ==
  queue([g EXCEPT !.execPc = "all", !.winner = FirstIn(g, {"rejected"})],
        ExecTask)

\* await Promise.all(executionPromises)
awaitAll(g) ==
  LET w == FirstIn(g, {"rejected"})
      g1 == [g EXCEPT !.execPc = "all", !.winner = w]
  IN IF w # Nil \/ \A m \in Range(g.promises) : g.inv[m] = "fulfilled"
     THEN queue(g1, ExecTask)
     ELSE g1

\* execute() from the test of the outer loop to its next await.
loopSync(g) ==
  IF g.hsize > 0 \/ g.running # {}
  THEN {IF s.running # {} THEN awaitRace(s) ELSE [s EXCEPT !.execPc = "hang"] :
          s \in innerLoop(g)}
  ELSE {awaitAll(g)}

\* ---------------------------------------------------------------- state
\* A new Graph: empty registries, an empty ready queue; the node objects
\* are new as well (Pending, nothing buffered, all endpoints in Push mode).
NewGraph ==
  /\ nodes = {}
  /\ edges = << >>
  /\ outE = [n \in Nodes |-> << >>]
  /\ inE = [n \in Nodes |-> [p \in Ports |-> << >>]]
  /\ buf = [n \in Nodes |-> [p \in Ports |-> << >>]]
  /\ obuf = [n \in Nodes |-> << >>]
  /\ state = [n \in Nodes |-> "pending"]
  /\ abort = [n \in Nodes |-> "null"]
  /\ signal = [n \in Nodes |-> "none"]
  /\ removedQueued = {}
  /\ apiErr = "none"
  /\ cmp = "strategy"
  /\ value = [n \in Nodes |-> n]
  /\ out = Undefined
  /\ lastOp = "none"
  /\ inMode = [n \in Nodes |-> [p \in Ports |-> "push"]]
  /\ outMode = [n \in Nodes |-> "push"]
  /\ dataPromises = [n \in Nodes |-> [p \in Ports |-> << >>]]
  /\ calls = << >>
  /\ emitted = << >>
  /\ sent = [n \in Nodes |-> 0]
  /\ reads = [n \in Nodes |-> << >>]
  /\ insertionOrder = << >>
  /\ counter = 0
  /\ membership = << >>
  /\ executes = 0
  /\ root = Nil
  /\ first_child = [n \in Nodes |-> Nil]
  /\ next_sibling = [n \in Nodes |-> Nil]
  /\ prev_link = [n \in Nodes |-> Nil]
  /\ hsize = 0
  /\ handles = {}
  /\ running = {}
  /\ completed = {}
  /\ inv = [n \in Nodes |-> "none"]
  /\ gi = [n \in Nodes |-> 0]
  /\ behav = [n \in Nodes |-> "none"]
  /\ got = [n \in Nodes |-> [p \in Ports |-> Undefined]]
  /\ execPc = "idle"
  /\ promises = << >>
  /\ winner = Nil
  /\ execErr = Nil
  /\ microtasks = << >>
  /\ mutations = 0
  /\ unfinishedUp = [n \in Nodes |-> {}]
  /\ keyChanged = [n \in Nodes |-> FALSE]
  /\ lastPoll = [n |-> Nil, size |-> 0, isMin |-> TRUE, ties |-> FALSE, stale |-> FALSE,
                 afterRemoval |-> FALSE, oldest |-> TRUE, fed |-> TRUE]

\* A new graph with any concurrency limit and any priorities of the nodes;
\* the run of node n emits the one value n.
Init ==
  /\ maxConcurrency \in 1 .. MaxConcurrency
  /\ priority \in [Nodes -> Priorities]
  /\ emits = [n \in Nodes |-> << n >>]
  /\ strategy = "default"
  /\ enableDynamicScheduling = TRUE
  /\ NewGraph

\* execute() has not been called yet: the graph is being built.
ExecIdle == execPc = "idle"

\* A promise continuation is runnable: timers (macrotasks) have to wait.
MicrotaskPending == microtasks # << >>

\* -------------------------------------------------------------- actions
\* graph.addNode(n), n not registered.  The node object of an id is the same
\* for the whole behaviour: a removed node is added again with its state.
AddNode(n) ==
  /\ ExecIdle
  /\ n \notin nodes
  /\ Install(addNode(G, n))

\* graph.connect(s, "out", t, p)
Connect(s, t, p) ==
  /\ ExecIdle
  /\ s \in nodes /\ t \in nodes
  /\ s < t /\ p \in InPorts(t)
  /\ Edge(s, t, p) \notin Range(edges) \cup Range(outE[s]) \cup Range(inE[t][p])
  /\ Install(connect(G, s, t, p))

\* graph.removeEdge(id)
RemoveEdge(e) ==
  /\ mutations < MaxMutations
  /\ e \in Range(edges)
  /\ Install([removeEdge(G, e) EXCEPT !.mutations = @ + 1])

\* graph.removeNode(n)
RemoveNode(n) ==
  /\ mutations < MaxMutations
  /\ n \in nodes
  /\ Install([removeNode(G, n) EXCEPT !.mutations = @ + 1])

\* node.cancel() called by the user on a registered node
Cancel(n) ==
  /\ mutations < MaxMutations
  /\ n \in nodes
  /\ Install([cancel(G, n) EXCEPT !.mutations = @ + 1])

\* graph.clear()
Clear ==
  /\ mutations < MaxMutations
  /\ nodes # {}
  /\ Install([clear(G) EXCEPT !.mutations = @ + 1])

\* graph.execute() is called: runs to its first await.
ExecuteStart ==
  /\ ExecIdle
  /\ \E s \in loopSync([G EXCEPT !.executes = @ + 1]) : Install(s)

\* The promise of Promise.race(executionPromises) settles as the promise
\* `winner` did: the continuation of the await is queued.
RaceSettle ==
  /\ IsNext(ExecTask)
  /\ execPc = "race"
  /\ Install(queue([dequeue(G) EXCEPT !.execPc = "resume"], ExecTask))

\* `await Promise.race(executionPromises)` resumes, or throws.
RaceResume ==
  /\ IsNext(ExecTask)
  /\ execPc = "resume"
  /\ IF inv[winner] = "rejected"
     THEN Install([dequeue(G) EXCEPT !.execPc = "rejected", !.execErr = winner,
                                     !.winner = Nil])
     ELSE \E s \in loopSync([dequeue(G) EXCEPT !.winner = Nil]) : Install(s)

\* `await Promise.all(executionPromises)` resumes, or throws.
AllResume ==
  /\ IsNext(ExecTask)
  /\ execPc = "all"
  /\ IF winner # Nil
     THEN Install([dequeue(G) EXCEPT !.execPc = "rejected", !.execErr = winner,
                                     !.winner = Nil])
     ELSE Install([dequeue(G) EXCEPT !.execPc = "done"])

\* executeNode(n) resumes after `await inputEp.pullData()`.
GatherStep(n) ==
  /\ IsNext(n)
  /\ inv[n] = "gather"
  /\ IF gi[n] < NIn(n)
     THEN Install(pullPort(dequeue(G), n, gi[n] + 1))
     ELSE \E s \in startRun(dequeue(G), n) : Install(s)

\* The timer a sleeping run waits for fires; the run emits its output.
TimerFire(n) ==
  /\ inv[n] = "timer"
  /\ ~MicrotaskPending
  /\ Install(setOutput(G, n))

\* The run of n resumes after `await context.setOutput(...)` and emits its
\* next value.
EmitNext(n) ==
  /\ IsNext(n)
  /\ inv[n] = "run"
  /\ behav[n] # "throw"
  /\ sent[n] < Len(emits[n])
  /\ Install(setOutput(dequeue(G), n))

\* Node.execute resumes after `await this.run(context)`.
RunReturn(n) ==
  /\ IsNext(n)
  /\ inv[n] = "run"
  /\ behav[n] = "throw" \/ sent[n] >= Len(emits[n])
  /\ Install(queue([dequeue(G) EXCEPT
                      !.state[n] = IF behav[n] = "throw" THEN "failed"
                                   ELSE "completed",
                      !.abort[n] = "null",
                      !.inv[n] = "post"], n))

\* executeNode(n) resumes after `await node.execute(context)`.
ExecuteNodeEnd(n) ==
  /\ IsNext(n)
  /\ inv[n] = "post"
  /\ Install(executeNodeEnd(dequeue(G), n))

Next ==
  \/ \E n \in Nodes : AddNode(n)
  \/ \E s \in Nodes, t \in Nodes, p \in Ports : Connect(s, t, p)
  \/ \E e \in AllEdges : RemoveEdge(e)
  \/ \E n \in Nodes : RemoveNode(n)
  \/ \E n \in Nodes : Cancel(n)
  \/ Clear
  \/ ExecuteStart
  \/ RaceSettle
  \/ RaceResume
  \/ AllResume
  \/ \E n \in Nodes : GatherStep(n)
  \/ \E n \in Nodes : TimerFire(n)
  \/ \E n \in Nodes : RunReturn(n)
  \/ \E n \in Nodes : ExecuteNodeEnd(n)

Spec == Init /\ [][Next]_vars

\* The graph is built with addNode and connect and then executed; nothing
\* mutates it afterwards.
NextRun ==
  \/ \E n \in Nodes : AddNode(n)
  \/ \E s \in Nodes, t \in Nodes, p \in Ports : Connect(s, t, p)
  \/ ExecuteStart
  \/ RaceSettle
  \/ RaceResume
  \/ AllResume
  \/ \E n \in Nodes : GatherStep(n)
  \/ \E n \in Nodes : TimerFire(n)
  \/ \E n \in Nodes : RunReturn(n)
  \/ \E n \in Nodes : ExecuteNodeEnd(n)

SpecRun == Init /\ [][NextRun]_vars

\* The tasks of the event loop: continuations of promises and timer callbacks.
EventLoop ==
  \/ RaceSettle
  \/ RaceResume
  \/ AllResume
  \/ \E n \in Nodes : GatherStep(n)
  \/ \E n \in Nodes : TimerFire(n)
  \/ \E n \in Nodes : RunReturn(n)
  \/ \E n \in Nodes : ExecuteNodeEnd(n)

\* The event loop runs a task whenever one is runnable.
FairSpec == SpecRun /\ WF_vars(EventLoop)

\* ---------------------------------------------- a producer and a consumer
\* The producer, node 1, emits MaxEmit values, any values.
InitFifo ==
  /\ maxConcurrency \in 1 .. MaxConcurrency
  /\ priority \in [Nodes -> Priorities]
  /\ \E vs \in [1 .. MaxEmit -> Values] :
       emits = [n \in Nodes |-> IF n = 1 THEN vs ELSE << n >>]
  /\ strategy = "default"
  /\ enableDynamicScheduling = TRUE
  /\ NewGraph

\* The graph of the producer 1 and the consumer 2 with the single edge
\* between them is built and executed.
NextFifo ==
  \/ \E n \in {1, 2} : AddNode(n)
  \/ Connect(1, 2, 1)
  \/ ExecuteStart
  \/ RaceSettle
  \/ RaceResume
  \/ AllResume
  \/ \E n \in Nodes : GatherStep(n)
  \/ \E n \in Nodes : TimerFire(n)
  \/ \E n \in Nodes : EmitNext(n)
  \/ \E n \in Nodes : RunReturn(n)
  \/ \E n \in Nodes : ExecuteNodeEnd(n)

SpecFifo == InitFifo /\ [][NextFifo]_vars

\* ------------------------------------------------ sources and one sink
\* The last node is the sink, the others are the sources that feed it.
Sink == NumNodes
Sources == Nodes \ {Sink}

\* Serial execution; the sources have pairwise different priorities and the
\* sink comes after all of them.
InitPriority ==
  /\ maxConcurrency = 1
  /\ priority \in [Nodes -> 0 .. MaxPriority + 1]
  /\ priority[Sink] = MaxPriority + 1
  /\ \A a \in Sources : priority[a] <= MaxPriority
  /\ \A a \in Sources : \A b \in Sources \ {a} : priority[a] # priority[b]
  /\ emits = [n \in Nodes |-> << n >>]
  /\ strategy = "default"
  /\ enableDynamicScheduling = TRUE
  /\ NewGraph

\* The sink and the sources are added, every source is connected to the one
\* input port of the sink, and the graph is executed.
NextPriority ==
  \/ \E n \in Nodes : AddNode(n)
  \/ \E s \in Sources : Connect(s, Sink, 1)
  \/ ExecuteStart
  \/ RaceSettle
  \/ RaceResume
  \/ AllResume
  \/ \E n \in Nodes : GatherStep(n)
  \/ \E n \in Nodes : TimerFire(n)
  \/ \E n \in Nodes : RunReturn(n)
  \/ \E n \in Nodes : ExecuteNodeEnd(n)

SpecPriority == InitPriority /\ [][NextPriority]_vars

\* ---------------------------------------------------- the temporal policy
\* A new graph with the TemporalSchedulingStrategy, executing serially.
InitTemporal ==
  /\ maxConcurrency = 1
  /\ priority \in [Nodes -> Priorities]
  /\ emits = [n \in Nodes |-> << n >>]
  /\ strategy = "temporal"
  /\ enableDynamicScheduling = TRUE
  /\ NewGraph

\* new Node({id: n}) with its endpoints, for an id whose former node object
\* is out of the graph and idle.
newNode(g, n) ==
  [g EXCEPT !.state[n] = "pending",
            !.abort[n] = "null",
            !.inE[n] = [p \in Ports |-> << >>],
            !.outE[n] = << >>,
            !.buf[n] = [p \in Ports |-> << >>],
            !.obuf[n] = << >>,
            !.dataPromises[n] = [p \in Ports |-> << >>]]

\* graph.addNode(new Node({id: n})): a new node object, also when the id
\* was in the graph before.
AddNewNode(n) ==
  /\ ExecIdle
  /\ n \notin nodes
  /\ Install(addNode(newNode(G, n), n))

\* Nodes are added, connected and removed, and the graph is executed.
NextTemporal ==
  \/ \E n \in Nodes : AddNewNode(n)
  \/ \E s \in Nodes, t \in Nodes, p \in Ports : Connect(s, t, p)
  \/ \E n \in Nodes : RemoveNode(n)
  \/ ExecuteStart
  \/ RaceSettle
  \/ RaceResume
  \/ AllResume
  \/ \E n \in Nodes : GatherStep(n)
  \/ \E n \in Nodes : TimerFire(n)
  \/ \E n \in Nodes : RunReturn(n)
  \/ \E n \in Nodes : ExecuteNodeEnd(n)

SpecTemporal == InitTemporal /\ [][NextTemporal]_vars

\* The number of occurrences of x in the sequence s.
Count(s, x) == Cardinality({i \in 1 .. Len(s) : s[i] = x})

\* graph.connect(s, "out", t, p), also for a pair of ports that is connected
\* already (up to MaxCopies edges of one id).
ConnectAgain(s, t, p) ==
  /\ ExecIdle
  /\ s \in nodes /\ t \in nodes
  /\ s < t /\ p \in InPorts(t)
  /\ Count(outE[s], Edge(s, t, p)) < MaxCopies
  /\ Install(connect(G, s, t, p))

\* A new graph that is only built and taken apart: all nodes have the
\* default priority.
InitIndex ==
  /\ maxConcurrency = 1
  /\ priority = [n \in Nodes |-> 0]
  /\ emits = [n \in Nodes |-> << n >>]
  /\ strategy = "default"
  /\ enableDynamicScheduling = TRUE
  /\ NewGraph

\* Calls of addNode, connect, removeEdge and removeNode, in any order.
NextIndex ==
  \/ \E n \in Nodes : AddNode(n)
  \/ \E s \in Nodes, t \in Nodes, p \in Ports : ConnectAgain(s, t, p)
  \/ \E e \in AllEdges : RemoveEdge(e)
  \/ \E n \in Nodes : RemoveNode(n)

SpecIndex == InitIndex /\ [][NextIndex]_vars

\* The former call of execute() has returned or thrown.
ExecOver == execPc \in {"done", "rejected"}

\* graph.execute() is called again: a new executionPromises array.
ExecuteAgain ==
  /\ ExecOver
  /\ executes < MaxExecutes
  /\ \E s \in loopSync([G EXCEPT !.executes = @ + 1, !.promises = << >>,
                                 !.winner = Nil, !.execErr = Nil]) :
       Install(s)

\* graph.addNode(n) between two calls of execute.
AddLate(n) ==
  /\ ExecOver
  /\ n \notin nodes
  /\ Install(addNode(G, n))

\* A new graph that runs one node at a time; all nodes have the default
\* priority.
InitAgain ==
  /\ maxConcurrency = 1
  /\ priority = [n \in Nodes |-> 0]
  /\ emits = [n \in Nodes |-> << n >>]
  /\ strategy = "default"
  /\ enableDynamicScheduling = TRUE
  /\ NewGraph

\* The graph is built and executed, changed (nodes added, nodes and edges
\* removed) and executed again.
NextAgain ==
  \/ \E n \in Nodes : AddNode(n)
  \/ \E s \in Nodes, t \in Nodes, p \in Ports : Connect(s, t, p)
  \/ \E n \in Nodes : AddLate(n)
  \/ \E e \in AllEdges : RemoveEdge(e)
  \/ \E n \in Nodes : RemoveNode(n)
  \/ ExecuteStart
  \/ ExecuteAgain
  \/ RaceSettle
  \/ RaceResume
  \/ AllResume
  \/ \E n \in Nodes : GatherStep(n)
  \/ \E n \in Nodes : TimerFire(n)
  \/ \E n \in Nodes : RunReturn(n)
  \/ \E n \in Nodes : ExecuteNodeEnd(n)

SpecAgain == InitAgain /\ [][NextAgain]_vars

\* The caller wires two node objects by hand: new Edge(id, out, in), then
\* addEdge on both endpoints; the registry of the graph does not know the
\* edge.
wire(g, s, t, p) ==
  LET e == Edge(s, t, p)
  IN [g EXCEPT !.outE[s] = Append(@, e), !.inE[t][p] = Append(@, e)]

\* Wiring by hand of a target that is not yet in the graph.
Wire(s, t, p) ==
  /\ ExecIdle
  /\ t \notin nodes
  /\ s < t /\ p \in InPorts(t)
  /\ Edge(s, t, p) \notin Range(outE[s]) \cup Range(inE[t][p])
  /\ Install(wire(G, s, t, p))

\* A new graph with either value of enableDynamicScheduling; all nodes have
\* the default priority.
InitDynamic ==
  /\ maxConcurrency \in 1 .. MaxConcurrency
  /\ priority = [n \in Nodes |-> 0]
  /\ emits = [n \in Nodes |-> << n >>]
  /\ strategy = "default"
  /\ enableDynamicScheduling \in BOOLEAN
  /\ NewGraph

\* Node objects are wired by hand or connected through the graph, added,
\* and the graph is executed.
NextDynamic ==
  \/ \E s \in Nodes, t \in Nodes, p \in Ports : Wire(s, t, p)
  \/ \E n \in Nodes : AddNode(n)
  \/ \E s \in Nodes, t \in Nodes, p \in Ports : Connect(s, t, p)
  \/ ExecuteStart
  \/ RaceSettle
  \/ RaceResume
  \/ AllResume
  \/ \E n \in Nodes : GatherStep(n)
  \/ \E n \in Nodes : TimerFire(n)
  \/ \E n \in Nodes : RunReturn(n)
  \/ \E n \in Nodes : ExecuteNodeEnd(n)

SpecDynamic == InitDynamic /\ [][NextDynamic]_vars

\* The caller re-arms a node that has run: `state` is a public field of the
\* node (the graph itself assigns it from outside), and Pending is the state
\* of a node that waits for its inputs.  The graph's own methods never put a
\* registered node back to Pending.
Rearm(n) ==
  /\ execPc = "done"
  /\ n \in nodes
  /\ state[n] = "completed"
  /\ n \notin handles
  /\ Install([G EXCEPT !.state[n] = "pending"])

\* A graph is built and executed; afterwards the caller re-arms nodes and
\* removes edges.
NextRearm ==
  \/ \E n \in Nodes : AddNode(n)
  \/ \E s \in Nodes, t \in Nodes, p \in Ports : Connect(s, t, p)
  \/ ExecuteStart
  \/ RaceSettle
  \/ RaceResume
  \/ AllResume
  \/ \E n \in Nodes : GatherStep(n)
  \/ \E n \in Nodes : TimerFire(n)
  \/ \E n \in Nodes : RunReturn(n)
  \/ \E n \in Nodes : ExecuteNodeEnd(n)
  \/ \E n \in Nodes : Rearm(n)
  \/ \E e \in AllEdges : execPc = "done" /\ RemoveEdge(e)

SpecRearm == Init /\ [][NextRearm]_vars

\* -------------------------------------------------- a heap of numbers
\* A PairingHeap<number> with the comparator (a, b) => a - b, used through
\* its own interface.  `handles` holds the PairingNodes the caller got from
\* insert that are still in the heap.
InitHeap ==
  /\ maxConcurrency = 1
  /\ priority = [n \in Nodes |-> 0]
  /\ nodes = {}
  /\ edges = << >>
  /\ outE = [n \in Nodes |-> << >>]
  /\ inE = [n \in Nodes |-> [p \in Ports |-> << >>]]
  /\ buf = [n \in Nodes |-> [p \in Ports |-> << >>]]
  /\ obuf = [n \in Nodes |-> << >>]
  /\ state = [n \in Nodes |-> "pending"]
  /\ abort = [n \in Nodes |-> "null"]
  /\ signal = [n \in Nodes |-> "none"]
  /\ removedQueued = {}
  /\ apiErr = "none"
  /\ cmp = "numbers"
  /\ value = [h \in HeapIds |-> Undefined]
  /\ out = Undefined
  /\ lastOp = "none"
  /\ inMode = [n \in Nodes |-> [p \in Ports |-> "push"]]
  /\ outMode = [n \in Nodes |-> "push"]
  /\ dataPromises = [n \in Nodes |-> [p \in Ports |-> << >>]]
  /\ calls = << >>
  /\ emitted = << >>
  /\ emits = [n \in Nodes |-> << n >>]
  /\ strategy = "default"
  /\ enableDynamicScheduling = TRUE
  /\ sent = [n \in Nodes |-> 0]
  /\ reads = [n \in Nodes |-> << >>]
  /\ insertionOrder = << >>
  /\ counter = 0
  /\ membership = << >>
  /\ executes = 0
  /\ root = Nil
  /\ first_child = [h \in HeapIds |-> Nil]
  /\ next_sibling = [h \in HeapIds |-> Nil]
  /\ prev_link = [h \in HeapIds |-> Nil]
  /\ hsize = 0
  /\ handles = {}
  /\ running = {}
  /\ completed = {}
  /\ inv = [n \in Nodes |-> "none"]
  /\ gi = [n \in Nodes |-> 0]
  /\ behav = [n \in Nodes |-> "none"]
  /\ got = [n \in Nodes |-> [p \in Ports |-> Undefined]]
  /\ execPc = "idle"
  /\ promises = << >>
  /\ winner = Nil
  /\ execErr = Nil
  /\ microtasks = << >>
  /\ mutations = 0
  /\ unfinishedUp = [n \in Nodes |-> {}]
  /\ keyChanged = [n \in Nodes |-> FALSE]
  /\ lastPoll = [n |-> Nil, size |-> 0, isMin |-> TRUE, ties |-> FALSE,
                 stale |-> FALSE, afterRemoval |-> FALSE, oldest |-> TRUE, fed |-> TRUE]

\* The PairingNode `new PairingNode(value)` creates: one that is not in use.
NewNode == CHOOSE h \in HeapIds \ handles : \A k \in HeapIds \ handles : h <= k

\* heap.insert(v); the caller keeps the node returned.
HeapInsert(v) ==
  /\ handles # HeapIds
  /\ Install([insert([G EXCEPT !.value[NewNode] = v], NewNode)
                 EXCEPT !.handles = @ \cup {NewNode}, !.lastOp = "insert",
                        !.out = Undefined, !.apiErr = "none"])

\* heap.peek()
HeapPeek ==
  Install([G EXCEPT !.out = peek(G), !.lastOp = "peek", !.apiErr = "none"])

\* heap.poll(); the node polled is garbage.
HeapPoll ==
  LET pr == poll(G)
  IN Install([pr.g EXCEPT !.handles = @ \ {pr.v},
                          !.out = IF pr.v = Nil THEN Undefined
                                  ELSE value[pr.v],
                          !.value = [h \in HeapIds |->
                                       IF h = pr.v THEN Undefined ELSE @[h]],
                          !.lastOp = "poll",
                          !.apiErr = "none"])

\* heap.delete(h) with a node that is in the heap; the node is garbage then.
HeapDelete(h) ==
  /\ h \in handles
  /\ Install([delete(G, h) EXCEPT
                 !.handles = @ \ {h},
                 !.value[h] = Undefined,
                 !.out = Undefined,
                 !.apiErr = "none",
                 !.lastOp = IF h # root /\ first_child[h] # Nil
                            THEN "delete inner" ELSE "delete"])

\* heap.decrease(h, v) with a node that is in the heap
HeapDecrease(h, v) ==
  /\ h \in handles
  /\ Install([decrease(G, h, v) EXCEPT !.lastOp = "decrease",
                                       !.out = Undefined])

NextHeap ==
  \/ \E v \in Values : HeapInsert(v)
  \/ HeapPeek
  \/ HeapPoll
  \/ \E h \in HeapIds : HeapDelete(h)
  \/ \E h \in HeapIds, v \in Values : HeapDecrease(h, v)

SpecHeap == InitHeap /\ [][NextHeap]_vars

\* heap.delete(h) with a node that is no longer in the heap: PairingNodes
\* are numbered in the order of their creation, so that a node which is not
\* in the heap and is older than one that is has been polled or deleted.
\* (The size counter is kept from going below zero.)
HeapDeleteStale(h) ==
  /\ h \notin handles
  /\ \E k \in handles : h < k
  /\ hsize > 0
  /\ Install([delete(G, h) EXCEPT !.out = Undefined, !.apiErr = "none",
                                  !.lastOp = "delete stale"])

\* The heap of numbers, whose caller also keeps the handles of elements
\* that are gone and calls delete with them.
NextHeapStale ==
  \/ \E v \in Values : HeapInsert(v)
  \/ HeapPeek
  \/ HeapPoll
  \/ \E h \in HeapIds : HeapDelete(h)
  \/ \E h \in HeapIds, v \in Values : HeapDecrease(h, v)
  \/ \E h \in HeapIds : HeapDeleteStale(h)

SpecHeapStale == InitHeap /\ [][NextHeapStale]_vars

\* ------------------------------------------------ one edge, two endpoints
\* The edge from the output endpoint of node 1 to input endpoint 1 of node 2.
PipeEdge == Edge(1, 2, 1)

Modes == {"push", "pull"}

\* Two nodes connected by PipeEdge; the two endpoints of the edge are used
\* through their own interface, in any combination of modes.
InitPipe ==
  /\ maxConcurrency = 1
  /\ priority = [n \in Nodes |-> 0]
  /\ nodes = {1, 2}
  /\ edges = << PipeEdge >>
  /\ outE = [n \in Nodes |-> IF n = 1 THEN << PipeEdge >> ELSE << >>]
  /\ inE = [n \in Nodes |-> [p \in Ports |->
              IF n = 2 /\ p = 1 THEN << PipeEdge >> ELSE << >>]]
  /\ buf = [n \in Nodes |-> [p \in Ports |-> << >>]]
  /\ obuf = [n \in Nodes |-> << >>]
  /\ state = [n \in Nodes |-> "pending"]
  /\ abort = [n \in Nodes |-> "null"]
  /\ signal = [n \in Nodes |-> "none"]
  /\ removedQueued = {}
  /\ apiErr = "none"
  /\ cmp = "strategy"
  /\ value = [n \in Nodes |-> n]
  /\ out = Undefined
  /\ lastOp = "none"
  /\ \E m \in Modes :
       inMode = [n \in Nodes |-> [p \in Ports |->
                   IF n = 2 /\ p = 1 THEN m ELSE "push"]]
  /\ \E m \in Modes : outMode = [n \in Nodes |-> IF n = 1 THEN m ELSE "push"]
  /\ dataPromises = [n \in Nodes |-> [p \in Ports |-> << >>]]
  /\ calls = << >>
  /\ emitted = << >>
  /\ emits = [n \in Nodes |-> << n >>]
  /\ strategy = "default"
  /\ enableDynamicScheduling = TRUE
  /\ sent = [n \in Nodes |-> 0]
  /\ reads = [n \in Nodes |-> << >>]
  /\ insertionOrder = << >>
  /\ counter = 0
  /\ membership = << >>
  /\ executes = 0
  /\ root = Nil
  /\ first_child = [n \in Nodes |-> Nil]
  /\ next_sibling = [n \in Nodes |-> Nil]
  /\ prev_link = [n \in Nodes |-> Nil]
  /\ hsize = 0
  /\ handles = {}
  /\ running = {}
  /\ completed = {}
  /\ inv = [n \in Nodes |-> "none"]
  /\ gi = [n \in Nodes |-> 0]
  /\ behav = [n \in Nodes |-> "none"]
  /\ got = [n \in Nodes |-> [p \in Ports |-> Undefined]]
  /\ execPc = "idle"
  /\ promises = << >>
  /\ winner = Nil
  /\ execErr = Nil
  /\ microtasks = << >>
  /\ mutations = 0
  /\ unfinishedUp = [n \in Nodes |-> {}]
  /\ keyChanged = [n \in Nodes |-> FALSE]
  /\ lastPoll = [n |-> Nil, size |-> 0, isMin |-> TRUE, ties |-> FALSE,
                 stale |-> FALSE, afterRemoval |-> FALSE, oldest |-> TRUE, fed |-> TRUE]

\* The state in which a call on an endpoint begins, and the record of a call
\* that has returned (a call that threw emitted nothing).
Calling(op) == [G EXCEPT !.apiErr = "none", !.out = Undefined, !.lastOp = op]
Pushed(g, v) ==
  IF g.apiErr = "none" THEN [g EXCEPT !.emitted = Append(@, v)] ELSE g

\* The source emits v: pushData(v) on the output endpoint of node 1.
OutPushData(v) ==
  /\ Len(emitted) < MaxEmit
  /\ Install(Pushed(outPushData(Calling("out push"), 1, v), v))

\* pushData(v) called on the input endpoint itself.
InPushData(v) ==
  /\ Len(emitted) < MaxEmit
  /\ Install(Pushed(inPushData(Calling("in push"), 2, 1, v), v))

\* pullData() on the input endpoint of node 2.
InPullData ==
  /\ Len(calls) < MaxCalls
  /\ LET r == inPullData(Calling("in pull"), 2, 1)
     IN Install(IF r.g.apiErr # "none" THEN r.g
                ELSE [r.g EXCEPT !.out = r.v,
                                 !.calls = Append(@, [kind |-> "pull",
                                                      done |-> TRUE,
                                                      res |-> r.v])])

\* pullData() on the output endpoint of node 1.
OutPullData ==
  LET r == outPullData(Calling("out pull"), 1)
  IN Install([r.g EXCEPT !.out = r.v])

\* waitForData() on the input endpoint of node 2.
WaitForData ==
  /\ Len(calls) < MaxCalls
  /\ LET g == [Calling("wait") EXCEPT
                 !.calls = Append(@, [kind |-> "wait", done |-> FALSE,
                                      res |-> Undefined])]
     IN Install(waitForData(g, 2, 1, Len(g.calls)))

NextPipe ==
  \/ \E v \in Values : OutPushData(v)
  \/ \E v \in Values : InPushData(v)
  \/ InPullData
  \/ OutPullData
  \/ WaitForData

SpecPipe == InitPipe /\ [][NextPipe]_vars

\* graph.addNode(n) with any node, registered or not.
AddNodeAny(n) ==
  /\ ExecIdle
  /\ Install(addNodeCall(G, n))

\* The call connect(s, sp, t, tp) passes every lookup.
ConnectSucceeds(s, sp, t, tp) ==
  /\ s \in nodes /\ t \in nodes
  /\ sp \in OutPorts(s) /\ tp \in InPorts(t)

\* graph.connect(s, sp, t, tp) with any node ids and endpoint ids; a call
\* that succeeds connects a lower id to a higher one, once.
ConnectAny(s, sp, t, tp) ==
  /\ ExecIdle
  /\ ConnectSucceeds(s, sp, t, tp) =>
       /\ s < t
       /\ Edge(s, t, tp) \notin
            Range(edges) \cup Range(outE[s]) \cup Range(inE[t][tp])
  /\ Install(connectCall(G, s, sp, t, tp))

\* The graph is built, with calls that fail among those that succeed.
NextBuild ==
  \/ \E n \in Nodes : AddNodeAny(n)
  \/ \E s \in Nodes, t \in Nodes, sp \in PortIds, tp \in PortIds :
       ConnectAny(s, sp, t, tp)

SpecBuild == Init /\ [][NextBuild]_vars

\* graph.clear() as the last call of the graph's API, after the other
\* mutation calls.
ClearLast ==
  /\ mutations <= MaxMutations
  /\ nodes # {} \/ running # {}
  /\ Install([clear(G) EXCEPT !.mutations = MaxMutations + 1])

\* A graph is built and executed; nodes are removed, and at last the graph
\* is cleared.
NextClear ==
  \/ \E n \in Nodes : AddNode(n)
  \/ \E s \in Nodes, t \in Nodes, p \in Ports : Connect(s, t, p)
  \/ \E n \in Nodes : RemoveNode(n)
  \/ ClearLast
  \/ ExecuteStart
  \/ RaceSettle
  \/ RaceResume
  \/ AllResume
  \/ \E n \in Nodes : GatherStep(n)
  \/ \E n \in Nodes : TimerFire(n)
  \/ \E n \in Nodes : RunReturn(n)
  \/ \E n \in Nodes : ExecuteNodeEnd(n)

SpecClear == Init /\ [][NextClear]_vars

\* ============================================================ properties
\* Positions of an invocation of executeNode that has not settled.
InFlight == {"gather", "timer", "run", "post"}

\* Terminal node states.
Terminal == {"completed", "failed", "cancelled"}

\* C1: at every instant during execute, the running set holds at most
\* maxConcurrency node ids.
ConcurrencyBound == Cardinality(running) <= maxConcurrency

\* The bound is reached while nodes still wait in the queue.
ConcurrencyBoundWitness ==
  /\ execPc = "race"
  /\ Cardinality(running) = maxConcurrency
  /\ maxConcurrency > 1
  /\ hsize > 0

\* C2: topological respect: for every edge u -> v, if both u and v complete
\* in one execute, u was Completed when v's run began.
TopologicalRespect ==
  \A v \in Nodes : \A u \in unfinishedUp[v] :
    ~(state[u] = "completed" /\ state[v] = "completed")

Termination == (execPc # "idle") ~> (execPc \in {"done", "rejected"})

\* C6: for a graph built with addNode and connect in which no run throws,
\* every node of the graph is Completed when execute returns; before execute
\* is called every added node is Ready.
AllCompleted ==
  /\ execPc = "idle" => \A n \in nodes : state[n] = "ready"
  /\ execPc = "done" =>
       /\ \A n \in nodes : state[n] = "completed"
       /\ completed = nodes

\* execute has returned on a graph of all the nodes, with edges.
AllCompletedWitness ==
  /\ execPc = "done"
  /\ nodes = Nodes
  /\ Len(edges) >= 2
  /\ \E n \in Nodes : behav[n] = "sleep"

\* C7: data delivery: in an execute where no run throws, the value a node's
\* run reads on an input port fed by one Push edge is the value the edge's
\* source emitted, never undefined.
DataDelivery ==
  execPc = "done" =>
    \A v \in nodes : \A p \in InPorts(v) :
      Len(inE[v][p]) = 1 => got[v][p] = inE[v][p][1].s

\* The run of n has thrown and Node.execute has caught the error.
HasThrown(n) == behav[n] = "throw" /\ inv[n] \in {"post", "rejected"}

\* What a throwing run of n leaves behind, apart from the error execute
\* rejects with: n is Failed, not completed, out of the running set once the
\* invocation has settled; the settling step re-evaluates no other node; and
\* execute does not resolve normally.
ThrowEffects(n) ==
  /\ state'[n] = "failed"
  /\ n \notin completed'
  /\ inv'[n] = "rejected" => n \notin running'
  /\ (inv[n] = "post" /\ inv'[n] = "rejected")
       => /\ state' = state
          /\ << root', hsize', handles', first_child', next_sibling' >>
               = << root, hsize, handles, first_child, next_sibling >>
  /\ execPc' # "done"

FailureAwaitsOthers ==
  execPc = "rejected" =>
    \A n \in Range(promises) :
      inv[n] \notin InFlight /\ state[n] # "cancelled"

\* C10: Completed, Failed and Cancelled are terminal: once a node's state is
\* one of them it never changes again.
TerminalStates ==
  [][\A n \in Nodes : state[n] \in Terminal => state'[n] = state[n]]_vars

\* C11: cooperative cancellation: when cancel() is invoked on a Running node
\* (directly, by removeNode or by clear), the token its in-flight run got as
\* context.signal becomes aborted, and the node's state is Cancelled.
CooperativeCancellation ==
  [][\A n \in Nodes :
       (state[n] = "running" /\ inv[n] \in {"timer", "run"}
          /\ state'[n] = "cancelled")
         => signal'[n] = "aborted"]_vars

\* The extractions after a removal follow the policy: the node extracted is
\* a minimum of the queue under the comparator at that time.
PolicyOrderAfterRemoval == lastPoll.afterRemoval => lastPoll.isMin

\* A node removed while it was in the ready queue has no queue entry, no
\* handle, and its run is never invoked.
NoGhost ==
  \A n \in removedQueued :
    /\ n \notin nodes
    /\ n \notin handles
    /\ n \notin HeapMembers(G)
    /\ hsize = Cardinality(HeapMembers(G))
    /\ inv[n] = "none"
    /\ n \notin running
    /\ n \notin Range(promises)

Incident(n) == {e \in Range(edges) : e.s = n \/ e.t = n}

\* What removeNode(n) leaves behind: n is out of the registry, the edges
\* incident to n are out of the edge registry and out of the edge lists of
\* the endpoints at both ends, and the other edges stay where they were.
RemoveNodePost(n) ==
  /\ nodes' = nodes \ {n}
  /\ Cardinality(nodes') = Cardinality(nodes) - 1
  /\ Len(edges') = Len(edges) - Cardinality(Incident(n))
  /\ Range(edges') = Range(edges) \ Incident(n)
  /\ \A e \in Incident(n) :
       e \notin Range(outE'[e.s]) /\ e \notin Range(inE'[e.t][e.p])
  /\ \A e \in Range(edges') :
       e \in Range(outE'[e.s]) /\ e \in Range(inE'[e.t][e.p])

LastBlockingEdge(e) ==
  /\ e \in Range(edges)
  /\ e.t \in nodes
  /\ state[e.t] = "pending"
  /\ inE[e.t][e.p] = << e >>
  /\ buf[e.t][e.p] = << >>
  /\ \A p \in InPorts(e.t) \ {e.p} :
       Len(inE[e.t][p]) = 0 \/ buf[e.t][p] # << >>

Blocked(n) ==
  \E p \in InPorts(n) :
    InMode(n, p) = "push" /\ Len(inE[n][p]) > 0 /\ buf[n][p] = << >>

\* C15: before execute, a node that has a Push input endpoint with an
\* incident edge and an empty buffer is Pending, not Ready: after addNode of
\* a node with an output, addNode of a node with an input and connect of the
\* two, getStats reports states.ready = 1 and states.pending = 1.
PendingUntilFed ==
  (execPc = "idle" /\ mutations = 0) =>
    /\ \A n \in nodes : Blocked(n) => state[n] = "pending"
    /\ (nodes = {1, 2} /\ edges = << Edge(1, 2, 1) >>)
          => /\ getStats(G).states["ready"] = 1
             /\ getStats(G).states["pending"] = 1

\* C16: after clear() returns, getStats reports totalNodes = 0, totalEdges
\* = 0, runningNodes = 0 and readyNodes = 0, and every node that was in the
\* running set when clear was called has state Cancelled.
ClearCancelsRunning ==
  [][ClearLast =>
       /\ getStats(G)'.totalNodes = 0
       /\ getStats(G)'.totalEdges = 0
       /\ getStats(G)'.runningNodes = 0
       /\ getStats(G)'.readyNodes = 0
       /\ \A n \in running : state'[n] = "cancelled"]_vars

\* The graph's registries, the ready queue, the handle map, the endpoints'
\* edge lists and the nodes' states are as they were.
GraphUnchanged ==
  UNCHANGED << nodes, edges, outE, inE, buf, obuf, state, abort, root,
               first_child, next_sibling, prev_link, hsize, handles, running,
               completed >>

\* C17: addNode with an id that is already registered fails with a
\* duplicate-id error and leaves the graph unchanged: the node registry, the
\* ready queue, the handle map and the nodes' states are as before the call.
DuplicateIdRejected ==
  [][\A n \in Nodes :
       (n \in nodes /\ AddNodeAny(n))
         => apiErr' = "already exists" /\ GraphUnchanged]_vars

\* A duplicate addNode has failed on a graph with nodes in the queue and an
\* edge.
DuplicateIdRejectedWitness ==
  /\ apiErr = "already exists"
  /\ hsize >= 2
  /\ Len(edges) >= 1

\* C18: connect fails when the source node, the target node, the source
\* output port or the target input port does not exist (or the pair cannot
\* connect), and a failed connect registers no edge and leaves both
\* endpoints' edge lists and the edge registry unchanged.
ConnectRejected ==
  [][\A s \in Nodes, t \in Nodes, sp \in PortIds, tp \in PortIds :
       (~ConnectSucceeds(s, sp, t, tp) /\ ConnectAny(s, sp, t, tp))
         => /\ apiErr' \in {"node not found", "endpoint not found",
                            "cannot connect"}
            /\ s \notin nodes \/ t \notin nodes => apiErr' = "node not found"
            /\ GraphUnchanged]_vars

\* connect has failed for a missing endpoint of registered nodes, on a graph
\* that has an edge.
ConnectRejectedWitness ==
  /\ apiErr = "endpoint not found"
  /\ Len(edges) >= 1
  /\ Cardinality(nodes) >= 2

\* The least of the values in the heap of numbers (Undefined when empty).
MinValue ==
  IF handles = {} THEN Undefined
  ELSE CHOOSE v \in Values :
         /\ \E h \in handles : value[h] = v
         /\ \A h \in handles : v <= value[h]

\* The values in the heap are pairwise different.
UniqueValues == \A a \in handles : \A b \in handles \ {a} : value[a] # value[b]

\* The caller's handles are the nodes in the heap, and the size counts them.
HandlesValid ==
  /\ HeapMembers(G) = handles
  /\ hsize = Cardinality(handles)
  /\ handles = {} <=> root = Nil

\* The elements other than h are in the heap after the step, with their
\* values, and h is not.
RemovedExactly(h) ==
  /\ HeapMembers(G)' = HeapMembers(G) \ {h}
  /\ hsize' = hsize - 1
  /\ \A k \in handles \ {h} : value'[k] = value[k]

\* C19: queue identity: for inserts of unique values, delete by handle
\* removes exactly the element addressed (the size drops by one), polling
\* the survivors yields them in ascending order, deleting every handle
\* yields an empty heap, and the handles stay valid across interleaved
\* insert, poll and delete of other elements.
QueueIdentity ==
  /\ [](cmp = "numbers" => HandlesValid)
  /\ [][cmp = "numbers" =>
          /\ \A h \in handles \ handles' :
                (lastOp' \in {"delete", "delete inner"} /\ HeapDelete(h))
                  => RemovedExactly(h)
          /\ (lastOp' = "poll" /\ UniqueValues /\ handles # {} /\ HeapPoll) =>
                /\ out' = MinValue
                /\ \E h \in handles : value[h] = MinValue /\ RemovedExactly(h)
                /\ handles' # {} => MinValue' > out']_vars

\* A node that is not the root and has children has been deleted from a
\* heap of unique values, and three elements survive.
QueueIdentityWitness ==
  /\ cmp = "numbers"
  /\ lastOp = "delete inner"
  /\ UniqueValues
  /\ hsize = MaxHeap - 1

\* C20: with a fixed comparator, after any sequence of insert, poll,
\* delete of a live handle and decrease, peek returns a minimum of the
\* multiset of elements in the heap without removing it, and poll removes
\* and returns exactly that element; poll on an empty heap returns no value.
SortedMultiset ==
  /\ [](cmp = "numbers" => peek(G) = MinValue)
  /\ [][cmp = "numbers" =>
          /\ (lastOp' = "peek" /\ HeapPeek) =>
                /\ out' = MinValue
                /\ HeapMembers(G)' = HeapMembers(G) /\ hsize' = hsize
                /\ value' = value
          /\ (lastOp' = "poll" /\ handles # {} /\ HeapPoll) =>
                /\ out' = MinValue
                /\ value[root] = MinValue /\ RemovedExactly(root)
          /\ (lastOp' = "poll" /\ handles = {} /\ HeapPoll) =>
                out' = Undefined /\ hsize' = 0 /\ root' = Nil]_vars

\* poll has returned the minimum of a full heap in which another element has
\* the same value.
SortedMultisetWitness ==
  /\ cmp = "numbers"
  /\ lastOp = "poll"
  /\ out # Undefined
  /\ hsize = MaxHeap - 1
  /\ \E h \in handles : value[h] = out

\* The smaller of two numbers.
Min(a, b) == IF a <= b THEN a ELSE b

\* The tree of the heap, its size and its values are as they were.
HeapUnchanged ==
  UNCHANGED << root, first_child, next_sibling, prev_link, hsize, handles,
               value >>

\* C21: decrease(handle, v) fails with an error when v compares greater
\* than the handle's value, and then leaves the heap unchanged; when v
\* compares less or equal it replaces the value, the other elements stay,
\* and the heap's minimum is min(old minimum, v).
DecreaseContract ==
  [][cmp = "numbers" =>
       \A h \in handles, v \in Values :
         (lastOp' = "decrease" /\ HeapDecrease(h, v)) =>
           IF v > value[h]
           THEN /\ apiErr' = "not a higher priority"
                /\ HeapUnchanged
                /\ peek(G)' = peek(G)
           ELSE /\ apiErr' = "none"
                /\ value' = [value EXCEPT ![h] = v]
                /\ HeapMembers(G)' = HeapMembers(G)
                /\ handles' = handles /\ hsize' = hsize
                /\ peek(G)' = Min(peek(G), v)]_vars

\* A decrease has failed on a full heap, leaving an error behind.
DecreaseContractWitness ==
  /\ cmp = "numbers"
  /\ lastOp = "decrease"
  /\ apiErr = "not a higher priority"
  /\ hsize = MaxHeap

\* A decrease has lowered an element that was not the root below the old
\* minimum: it is the root now.
DecreaseWinsWitness ==
  /\ cmp = "numbers"
  /\ lastOp = "decrease"
  /\ apiErr = "none"
  /\ hsize >= 3
  /\ root # Nil /\ first_child[root] # Nil
  /\ \E h \in handles \ {root} : value[h] = value[root] + 1

\* The calls on the input endpoint that obtain a value: every waitForData,
\* and every pullData that did not find the buffer empty.
Obtaining == SelectSeq(calls, LAMBDA c : c.kind = "wait" \/ c.res # Undefined)

\* The number of obtaining calls that have their value.
Obtained == Cardinality({i \in 1 .. Len(Obtaining) : Obtaining[i].done})

\* C22: per-edge FIFO: for a single edge between Push-mode endpoints, the
\* values the source emits with pushData are obtained at the target by
\* successive pullData/waitForData calls in the order of emission, none
\* lost and none duplicated: the i-th call that obtains a value gets the
\* i-th value emitted, and the values not yet obtained are the buffer.
PerEdgeFifo ==
  (InMode(2, 1) = "push" /\ OutMode(1) = "push") =>
    /\ \A i \in 1 .. Len(Obtaining) : Obtaining[i].done <=> i <= Obtained
    /\ Obtained <= Len(emitted)
    /\ \A i \in 1 .. Obtained : Obtaining[i].res = emitted[i]
    /\ buf[2][1] = SubSeq(emitted, Obtained + 1, Len(emitted))
    /\ Len(dataPromises[2][1]) = Len(Obtaining) - Obtained
    /\ obuf[1] = << >>

\* Three different values went over the edge and were obtained, one of them
\* by a waitForData that was called before the value came, one by pullData.
PerEdgeFifoWitness ==
  /\ InMode(2, 1) = "push" /\ OutMode(1) = "push"
  /\ Len(emitted) = MaxEmit
  /\ Cardinality(Range(emitted)) = MaxEmit
  /\ Obtained = MaxEmit
  /\ lastOp = "out push"
  /\ \E i \in 1 .. Len(calls) : calls[i].kind = "pull" /\ calls[i].res # Undefined

\* The buffers and the awaiter list of the two endpoints are as they were,
\* and nothing was obtained or emitted.
EndpointsUnchanged == UNCHANGED << buf, obuf, dataPromises, calls, emitted >>

\* C25: mode mismatch: pushData on a Pull-mode input endpoint and pullData
\* on a Push-mode output endpoint fail with a mode error, and the failing
\* call leaves the endpoint's buffer and awaiter list unchanged.
ModeMismatch ==
  [][/\ \A v \in Values :
          (lastOp' = "in push" /\ InMode(2, 1) = "pull" /\ InPushData(v))
            => apiErr' = "not in PUSH mode" /\ EndpointsUnchanged
     /\ (lastOp' = "out pull" /\ OutMode(1) = "push" /\ OutPullData)
            => /\ apiErr' = "not in PULL mode"
               /\ out' = Undefined
               /\ EndpointsUnchanged]_vars

\* pushData has failed on a Pull-mode input endpoint on which a call of
\* waitForData is pending, next to a Push-mode output endpoint.
ModeMismatchWitness ==
  /\ lastOp = "in push"
  /\ apiErr = "not in PUSH mode"
  /\ InMode(2, 1) = "pull" /\ OutMode(1) = "push"
  /\ dataPromises[2][1] # << >>

\* pullData has failed on a Push-mode output endpoint that has sent values
\* to its target.
ModeMismatchPullWitness ==
  /\ lastOp = "out pull"
  /\ apiErr = "not in PULL mode"
  /\ OutMode(1) = "push"
  /\ Len(buf[2][1]) >= 2

\* C23: Push FIFO across invocations: given a single edge and a producer
\* that emits [v1, v2, v3], the consumer is invoked three times and its
\* getInput on that port reads v1, then v2, then v3.
PushFifoAcrossInvocations ==
  (/\ execPc = "done"
   /\ nodes = {1, 2}
   /\ edges = << PipeEdge >>
   /\ behav[1] # "throw" /\ behav[2] # "throw")
    => reads[2] = emits[1]

\* What the sink has collected: the values its runs read that are not
\* undefined.
Collected == SelectSeq(reads[Sink], LAMBDA v : v # Undefined)

\* The sources in ascending order of priority.
ByPriority ==
  CHOOSE f \in [1 .. Cardinality(Sources) -> Sources] :
    \A i \in DOMAIN f : \A j \in DOMAIN f :
      i < j => priority[f[i]] < priority[f[j]]

\* C24: priority ordering scenario: with source nodes of different
\* priorities that each feed the same input port of one Sink, at
\* maxConcurrency = 1, the Sink collects the sources' values (a source's
\* value is its id), in ascending priority order.
PriorityOrderingScenario ==
  (/\ execPc = "done"
   /\ nodes = Nodes
   /\ Range(edges) = {Edge(s, Sink, 1) : s \in Sources}
   /\ \A n \in Nodes : behav[n] # "throw")
    => Collected = ByPriority

\* C26: temporal policy: under TemporalSchedulingStrategy with
\* maxConcurrency = 1, of any two nodes in the ready queue the one that was
\* inserted into the graph first is dispatched first, where insertion order
\* is that of the nodes' current membership (also for an id that was
\* removed and added again): every node extracted is the one of the queue
\* that was added first.
TemporalOrder ==
  (strategy = "temporal" /\ maxConcurrency = 1 /\ lastPoll.n # Nil)
    => lastPoll.oldest

\* The same for graphs from which no node was ever removed.
TemporalOrderNoRemoval ==
  (strategy = "temporal" /\ maxConcurrency = 1 /\ lastPoll.n # Nil
     /\ mutations = 0)
    => lastPoll.oldest


\* The change of state of node n in a step is one of the transitions of the
\* lifecycle: Pending to Ready with a handle in the ready queue, Ready to
\* Running for a dequeued node that holds a slot, Running to Completed or
\* Failed, and Pending, Ready or Running to Cancelled.
ListedTransition(n) ==
  \/ state[n] = "pending" /\ state'[n] = "ready" /\ n \in handles'
  \/ /\ state[n] = "ready" /\ state'[n] = "running"
     /\ n \notin handles' /\ n \in running'
  \/ state[n] = "running" /\ state'[n] \in {"completed", "failed"}
  \/ state[n] \in {"pending", "ready", "running"} /\ state'[n] = "cancelled"

\* C27: every state change of a node in a graph is one of the listed
\* transitions: a node becomes Ready only from Pending (and is enqueued in
\* the same step), becomes Running only from Ready (when dequeued), and
\* becomes Completed or Failed only from Running.
LifecycleTransitions ==
  [][\A n \in nodes \cup nodes' :
       state'[n] # state[n] => ListedTransition(n)]_vars


\* C28: readiness at dispatch: whenever a node is dequeued and dispatched,
\* its readiness predicate holds at that moment: every one of its input
\* endpoints that has incident edges has data (Push: non-empty buffer; Pull:
\* some upstream output has data).
ReadyAtDispatch == lastPoll.n # Nil => lastPoll.fed


\* C29: a dispatched node holds one of the maxConcurrency slots from
\* dispatch until its invocation has settled (input gathering, run and
\* downstream re-evaluation included): at every instant the number of
\* invocations started and not yet settled is at most maxConcurrency, also
\* when removeNode is called on a Running node while execute is in progress.
SlotHeldUntilSettled ==
  Cardinality({n \in Nodes : inv[n] \in InFlight}) <= maxConcurrency


\* C30: each wait of the dispatch loop returns only when an invocation that
\* was still in flight at the start of the wait has settled, and a settled
\* invocation is removed from the tracked set and never waited on again:
\* whenever the loop starts to wait on Promise.race, every promise it waits
\* on is that of an invocation still in flight, so that the loop takes no
\* further iteration without a new settlement.
WaitsOnlyOnUnsettled ==
  [][(execPc # "race" /\ execPc' = "race")
       => \A i \in DOMAIN promises' : inv'[promises'[i]] \in InFlight]_vars

DynamicSchedulingFlag ==
  [][\A n \in Nodes :
       (inv[n] = "post" /\ behav[n] # "throw" /\ ExecuteNodeEnd(n))
         => IF enableDynamicScheduling
            THEN \A e \in Range(outE[n]) :
                   (state[e.t] = "pending" /\ isReady(G, e.t))
                     => e.t \in handles' /\ state'[e.t] = "ready"
            ELSE (handles' \ handles) \cap nodes = {}]_vars

\* The same with the flag left at its default.
DynamicSchedulingDefault ==
  [][\A n \in Nodes :
       (inv[n] = "post" /\ behav[n] # "throw" /\ ExecuteNodeEnd(n))
         => \A e \in Range(outE[n]) :
              (state[e.t] = "pending" /\ isReady(G, e.t))
                => e.t \in handles' /\ state'[e.t] = "ready"]_vars

\* A push of v that finds an awaiter on the input endpoint of node 2 gives v
\* to the oldest awaiter, which was pending, and to nobody else, and leaves
\* the buffer empty.
OldestAwaiterServed(v) ==
  LET c == Head(dataPromises[2][1])
  IN /\ buf[2][1] = << >> /\ buf'[2][1] = << >>
     /\ dataPromises'[2][1] = Tail(dataPromises[2][1])
     /\ calls[c].kind = "wait" /\ ~calls[c].done
     /\ calls'[c] = [kind |-> "wait", done |-> TRUE, res |-> v]
     /\ Len(calls') = Len(calls)
     /\ \A i \in (1 .. Len(calls)) \ {c} : calls'[i] = calls[i]

\* The pending awaiters are the calls of waitForData that have no value yet,
\* in the order the calls were made.
AwaitersInOrder ==
  LET w == dataPromises[2][1]
  IN /\ \A i \in 1 .. Len(w) : \A j \in 1 .. Len(w) : i < j => w[i] < w[j]
     /\ Range(w) = {c \in 1 .. Len(calls) :
                      calls[c].kind = "wait" /\ ~calls[c].done}
     /\ w # << >> => buf[2][1] = << >>

\* C33: awaiters on an input endpoint: when waitForData was called on an
\* empty buffer, the next pushData(v) resolves the oldest pending awaiter
\* with v and does not buffer v (hasData stays false); awaiters are served
\* in registration order, and every pushed value goes to exactly one
\* consumer, an awaiter or a later pullData/waitForData.
AwaitersServed ==
  /\ [](InMode(2, 1) = "push" => AwaitersInOrder)
  /\ [][(InMode(2, 1) = "push" /\ dataPromises[2][1] # << >>) =>
          \A v \in Values :
            /\ (lastOp' = "in push" /\ InPushData(v))
                 => OldestAwaiterServed(v)
            /\ (lastOp' = "out push" /\ OutMode(1) = "push" /\ OutPushData(v))
                 => OldestAwaiterServed(v)]_vars
  /\ []((InMode(2, 1) = "push" /\ OutMode(1) = "push") =>
          Len(emitted) = Len(buf[2][1]) +
            Cardinality({c \in 1 .. Len(calls) :
                           calls[c].done /\ calls[c].res # Undefined}))

\* Two calls of waitForData found the buffer empty; the push that followed
\* resolved the first of them and the second is still pending.
AwaitersServedWitness ==
  /\ InMode(2, 1) = "push"
  /\ lastOp \in {"in push", "out push"}
  /\ apiErr = "none"
  /\ Len(emitted) = 1
  /\ Len(calls) = 2
  /\ calls[1] = [kind |-> "wait", done |-> TRUE, res |-> emitted[1]]
  /\ calls[2] = [kind |-> "wait", done |-> FALSE, res |-> Undefined]
  /\ dataPromises[2][1] = << 2 >>
  /\ buf[2][1] = << >>

\* The registered edges into and out of node n.
EdgesInto(n) == {e \in Range(edges) : e.t = n}
EdgesOutOf(n) == {e \in Range(edges) : e.s = n}

\* C34: index consistency: after any sequence of addNode, connect,
\* removeEdge and removeNode (including connecting the same pair of ports
\* more than once), the edges listed by the endpoints of the graph's nodes
\* are exactly the edges of the edge registry: every registered edge is
\* listed once by its source and once by its target, no endpoint lists an
\* unregistered edge, both ends of every registered edge belong to
\* registered nodes, and getInDegree/getOutDegree equal the number of
\* registered edges into/out of the node.
IndexConsistency ==
  /\ \A e \in Range(edges) :
       /\ e.s \in nodes /\ e.t \in nodes
       /\ Count(outE[e.s], e) = 1
       /\ Count(inE[e.t][e.p], e) = 1
  /\ \A n \in nodes :
       /\ Range(outE[n]) \subseteq Range(edges)
       /\ \A p \in InPorts(n) : Range(inE[n][p]) \subseteq Range(edges)
       /\ getInDegree(G, n) = Cardinality(EdgesInto(n))
       /\ getOutDegree(G, n) = Cardinality(EdgesOutOf(n))

\* C35: handle map invariant: between scheduler steps, a node id has an
\* entry in the node-to-handle map if and only if that node is currently in
\* the ready queue, each node is queued at most once, and every queued node
\* is registered in the graph and has state Ready.
HandleMapInvariant ==
  cmp = "strategy" =>
    /\ handles = HeapMembers(G)
    /\ hsize = Cardinality(HeapMembers(G))
    /\ \A n \in HeapMembers(G) : n \in nodes /\ state[n] = "ready"

StatsConsistent ==
  LET st == getStats(G)
  IN /\ st.runningNodes = st.states["running"]
     /\ st.readyNodes = st.states["ready"]
     /\ st.states["pending"] + st.states["ready"] + st.states["running"] +
        st.states["completed"] + st.states["failed"] +
        st.states["cancelled"] = st.totalNodes

\* The six state counts of getStats sum to totalNodes.
StatsSum ==
  LET st == getStats(G)
  IN st.states["pending"] + st.states["ready"] + st.states["running"] +
     st.states["completed"] + st.states["failed"] +
     st.states["cancelled"] = st.totalNodes

\* C38: once removeNode(id) or clear() has returned, an invocation of a
\* removed node that was in flight has no further effect on the graph when
\* it settles: the id is not added to the completed or running set, no
\* downstream node is enqueued on its behalf, and the running and completed
\* sets only ever hold ids of registered nodes.
RemovedIsInert ==
  /\ [](running \subseteq nodes /\ completed \subseteq nodes)
  /\ [][\A n \in Nodes \ nodes :
          (inv[n] = "post" /\ ExecuteNodeEnd(n))
            => /\ completed' = completed
               /\ running' \subseteq running
               /\ handles' \subseteq handles]_vars

\* C39: PairingHeap.size() always equals the number of elements reachable
\* from the root (those inserted and not yet removed), and isEmpty() holds
\* iff there is no root, after any sequence of insert, poll, delete,
\* decrease, merge and clear, including delete called with a handle whose
\* element was already polled or deleted.
SizeCountsElements ==
  /\ hsize = Cardinality(HeapMembers(G))
  /\ HeapMembers(G) = handles
  /\ (hsize = 0) <=> (root = Nil)

====
